---- MODULE Spec2Model ----
(***************************************************************************)
(* A model of the bootstrap "trust infrastructure" of the CDK toolkit      *)
(* library: the per-environment lookup cache and the bootstrap version     *)
(* validator (api/environment/environment-resources.ts) and the bootstrap  *)
(* orchestrator with its safety gate (api/bootstrap/deploy-bootstrap.ts,   *)
(* api/bootstrap/bootstrap-environment.ts).                                *)
(*                                                                         *)
(* Every method is translated into a pure operator that takes the state    *)
(* the method reads and the answers its remote collaborators would give,   *)
(* and returns the state it leaves, the ordered list of the events it      *)
(* caused (remote calls, warnings, notices) and its result.  An action     *)
(* applies one whole call and records it in the variable `last`.           *)
(***************************************************************************)
EXTENDS Integers, Sequences, FiniteSets, TLC

(***************************************************************************)
(* Bounds of the model.                                                    *)
(***************************************************************************)
\* Largest bootstrap version of the contiguous range the model draws from.
MaxVersion == 6
\* No more remote toolkit lookups than this are issued for one environment.
MaxLookupCalls == 3

(***************************************************************************)
(* Optional values: `undefined` is the empty sequence.                     *)
(***************************************************************************)
None == << >>
Some(x) == << x >>
IsSome(o) == o # << >>
Get(o) == o[1]

(***************************************************************************)
(* PART A.  environment-resources.ts                                       *)
(***************************************************************************)
\* The version in which the bootstrap template gained ssm:GetParameter.
BOOTSTRAP_TEMPLATE_VERSION_INTRODUCING_GETPARAMETER == 5

\* Environments (account:region keys) and SSM parameter names.
Envs == {"111:us-east-1", "222:eu-west-1"}
ParamNames == {"/cdk-bootstrap/a/version", "/cdk-bootstrap/b/version"}

\* Bootstrap versions: a contiguous range around the threshold, and the
\* value 10 of the documented example.
Versions == (3 .. MaxVersion) \cup {10}

\* What ToolkitInfo.lookup answers: a bootstrap stack that was found, with
\* its version, or the "not found" info.
ToolkitInfosOver(versions) ==
  {[found |-> TRUE, version |-> v] : v \in versions}
    \cup {[found |-> FALSE, version |-> 0]}

(***************************************************************************)
(* Decimal strings, as sequences of characters, and JavaScript's           *)
(* parseInt(s, 10) on them: the longest prefix of digits, NaN (None) when  *)
(* there is none.                                                          *)
(***************************************************************************)
Digits == <<"0", "1", "2", "3", "4", "5", "6", "7", "8", "9">>
IsDigit(c) == \E i \in 1..10 : Digits[i] = c
DigitValue(c) == (CHOOSE i \in 1..10 : Digits[i] = c) - 1

RECURSIVE DecimalString(_)
DecimalString(n) ==
  IF n < 10 THEN << Digits[n + 1] >>
  ELSE Append(DecimalString(n \div 10), Digits[(n % 10) + 1])

RECURSIVE ParseDigits(_, _, _)
ParseDigits(s, i, acc) ==
  IF i > Len(s) \/ ~IsDigit(s[i]) THEN acc
  ELSE ParseDigits(s, i + 1, acc * 10 + DigitValue(s[i]))

ParseInt(s) ==
  IF Len(s) = 0 \/ ~IsDigit(s[1]) THEN None ELSE Some(ParseDigits(s, 1, 0))

\* Parameter values the store may hold: version numbers, a number followed
\* by junk, and values that are no number at all (among them the text
\* "undefined" of a response without a Parameter).
SsmValuesOver(versions) ==
  {DecimalString(v) : v \in versions}
    \cup {<<"4", "x">>, <<"u", "n", "d", "e", "f", "i", "n", "e", "d">>}

\* What ssm.getParameter answers: a value, or an error with a name tag.
SsmErrorNames == {"ParameterNotFound", "AccessDeniedException", "ThrottlingException"}
SsmAnswersOver(versions) ==
  {[ok |-> TRUE, value |-> s] : s \in SsmValuesOver(versions)}
    \cup {[ok |-> FALSE, name |-> n] : n \in SsmErrorNames}

\* emptyCache()
emptyCache == [ssmParameters |-> << >>, toolkitInfo |-> None]

\* Results of a call.
Return(v) == [ok |-> TRUE, value |-> v]
Throw(e) == [ok |-> FALSE, error |-> e]
Void == "void"

\* new ToolkitError(message): the message is kept as its parts.
ToolkitError(msg) == [name |-> "ToolkitError", message |-> msg]
\* An error raised by the AWS SDK, tagged by name.
SdkError(n) == [name |-> n, message |-> [type |-> "sdk", name |-> n]]

\* Events
RemoteLookupEvent(info) == [ev |-> "ToolkitInfo.lookup", answer |-> info]
GetParameterEvent(p, ans) == [ev |-> "ssm.getParameter", param |-> p, answer |-> ans]
WarnEvent(msg) == [ev |-> "warn", message |-> msg]
NoticeEvent(env, v) == [ev |-> "notices.addBootstrappedEnvironment", environment |-> env, version |-> v]

\* A faulty lookupToolkit that never stores what it looked up.
LookupToolkitUncached(c, info) ==
  [cache |-> c, events |-> << RemoteLookupEvent(info) >>, result |-> Return(info)]

\* EnvironmentResources.lookupToolkit, on the environment cache c; info is
\* what ToolkitInfo.lookup answers when it is called.
LookupToolkit(c, info) ==
  IF ~IsSome(c.toolkitInfo)
    THEN [cache |-> [c EXCEPT !.toolkitInfo = Some(info)],
          events |-> << RemoteLookupEvent(info) >>,
          result |-> Return(info)]
    ELSE [cache |-> c, events |-> << >>, result |-> Return(Get(c.toolkitInfo))]

\* A faulty versionFromSsmParameter without the catch that tells a missing
\* parameter from other failures.
VersionFromSsmParameterUncaught(c, parameterName, ans) ==
  IF parameterName \in DOMAIN c.ssmParameters
    THEN [cache |-> c, events |-> << >>, result |-> Return(c.ssmParameters[parameterName])]
  ELSE IF ~ans.ok
    THEN [cache |-> c, events |-> << GetParameterEvent(parameterName, ans) >>,
          result |-> Throw(SdkError(ans.name))]
  ELSE IF ~IsSome(ParseInt(ans.value))
    THEN [cache |-> c, events |-> << GetParameterEvent(parameterName, ans) >>,
          result |-> Throw(ToolkitError([type |-> "not a number", param |-> parameterName,
                                         value |-> ans.value]))]
  ELSE [cache |-> [c EXCEPT !.ssmParameters =
                     [q \in DOMAIN c.ssmParameters \cup {parameterName} |->
                        IF q = parameterName THEN Get(ParseInt(ans.value))
                        ELSE c.ssmParameters[q]]],
        events |-> << GetParameterEvent(parameterName, ans) >>,
        result |-> Return(Get(ParseInt(ans.value)))]

\* A faulty versionFromSsmParameter that stores what it parsed before it
\* looks at it.
VersionFromSsmParameterStoringFirst(c, parameterName, ans) ==
  IF parameterName \in DOMAIN c.ssmParameters
    THEN [cache |-> c, events |-> << >>, result |-> Return(c.ssmParameters[parameterName])]
  ELSE IF ~ans.ok
    THEN [cache |-> c, events |-> << GetParameterEvent(parameterName, ans) >>,
          result |-> Throw(IF ans.name = "ParameterNotFound"
                             THEN ToolkitError([type |-> "parameter not found",
                                                param |-> parameterName])
                             ELSE SdkError(ans.name))]
  ELSE [cache |-> [c EXCEPT !.ssmParameters =
                     [q \in DOMAIN c.ssmParameters \cup {parameterName} |->
                        IF q # parameterName THEN c.ssmParameters[q]
                        ELSE IF IsSome(ParseInt(ans.value)) THEN Get(ParseInt(ans.value))
                        ELSE 0]],
        events |-> << GetParameterEvent(parameterName, ans) >>,
        result |-> IF IsSome(ParseInt(ans.value)) THEN Return(Get(ParseInt(ans.value)))
                   ELSE Throw(ToolkitError([type |-> "not a number", param |-> parameterName,
                                            value |-> ans.value]))]

\* EnvironmentResources.versionFromSsmParameter; ans is what
\* ssm.getParameter answers when it is called.
VersionFromSsmParameter(c, parameterName, ans) ==
  IF parameterName \in DOMAIN c.ssmParameters
    THEN [cache |-> c, events |-> << >>, result |-> Return(c.ssmParameters[parameterName])]
    ELSE
      LET events == << GetParameterEvent(parameterName, ans) >> IN
      IF ans.ok
        THEN LET asNumber == ParseInt(ans.value) IN
             IF ~IsSome(asNumber)
               THEN [cache |-> c, events |-> events,
                     result |-> Throw(ToolkitError([type |-> "not a number",
                                                    param |-> parameterName,
                                                    value |-> ans.value]))]
               ELSE [cache |-> [c EXCEPT !.ssmParameters =
                                   [q \in DOMAIN c.ssmParameters \cup {parameterName} |->
                                      IF q = parameterName THEN Get(asNumber)
                                      ELSE c.ssmParameters[q]]],
                     events |-> events,
                     result |-> Return(Get(asNumber))]
        ELSE IF ans.name = "ParameterNotFound"
          THEN [cache |-> c, events |-> events,
                result |-> Throw(ToolkitError([type |-> "parameter not found",
                                               param |-> parameterName]))]
          ELSE [cache |-> c, events |-> events, result |-> Throw(SdkError(ans.name))]

\* The version getter of a ToolkitInfo: reading the version of a stack that
\* was not found fails.
VersionOf(info) ==
  IF info.found THEN Return(info.version)
  ELSE Throw(ToolkitError([type |-> "no bootstrap stack"]))

\* A faulty doValidate that also rejects the expected version itself.
doValidateOffByOne(expectedVersion, version, environment, notices) ==
  [events |-> IF notices THEN << NoticeEvent(environment, version) >> ELSE << >>,
   result |-> IF expectedVersion >= version
                THEN Throw(ToolkitError([type |-> "version too low",
                                         expected |-> expectedVersion,
                                         found |-> version]))
                ELSE Return(Void)]

\* A faulty doValidate that reports the version only once it has passed.
doValidateReportsAfter(expectedVersion, version, environment, notices) ==
  IF expectedVersion > version
    THEN [events |-> << >>,
          result |-> Throw(ToolkitError([type |-> "version too low",
                                         expected |-> expectedVersion,
                                         found |-> version]))]
    ELSE [events |-> IF notices THEN << NoticeEvent(environment, version) >> ELSE << >>,
          result |-> Return(Void)]

\* A faulty doValidate that records the version and compares nothing.
doValidateLenient(expectedVersion, version, environment, notices) ==
  [events |-> IF notices THEN << NoticeEvent(environment, version) >> ELSE << >>,
   result |-> Return(Void)]

\* doValidate(version, environment) inside validateVersion; notices tells
\* whether Notices.get() yields a registry.
doValidate(expectedVersion, version, environment, notices) ==
  [events |-> IF notices THEN << NoticeEvent(environment, version) >> ELSE << >>,
   result |-> IF expectedVersion > version
                THEN Throw(ToolkitError([type |-> "version too low",
                                         expected |-> expectedVersion,
                                         found |-> version]))
                ELSE Return(Void)]

\* A faulty test that takes every error for an access-denied one.
IsAccessDeniedAlways(e) == TRUE

\* `e.name !== 'AccessDeniedException'` in the catch of validateVersion.
IsAccessDenied(e) == e.name = "AccessDeniedException"

\* A faulty fallback condition that forgets the version threshold.
FallbackAppliesToAnyStack(bootstrapStack) == bootstrapStack.found

\* The fallback of validateVersion applies to a bootstrap stack that exists
\* and is older than the version that introduced ssm:GetParameter.
FallbackApplies(bootstrapStack) ==
  /\ bootstrapStack.found
  /\ bootstrapStack.version < BOOTSTRAP_TEMPLATE_VERSION_INTRODUCING_GETPARAMETER

\* EnvironmentResources.validateVersion
validateVersion(c, environment, expectedVersion, ssmParameterName, ans, info, notices) ==
  IF ~IsSome(expectedVersion)
    THEN [cache |-> c, events |-> << >>, result |-> Return(Void)]
  ELSE IF IsSome(ssmParameterName)
    THEN
      \* try { doValidate(await this.versionFromSsmParameter(...)); return; }
      LET read == VersionFromSsmParameter(c, Get(ssmParameterName), ans)
          checked == IF read.result.ok
                       THEN doValidate(Get(expectedVersion), read.result.value, environment, notices)
                       ELSE [events |-> << >>, result |-> read.result]
          tried == [cache |-> read.cache,
                    events |-> read.events \o checked.events,
                    result |-> checked.result]
      IN
      IF tried.result.ok THEN tried
      \* catch (e) { if (e.name !== 'AccessDeniedException') throw e; ... }
      ELSE IF ~IsAccessDenied(tried.result.error) THEN tried
      ELSE
        LET e == tried.result.error
            look == LookupToolkit(tried.cache, info)
            bootstrapStack == look.result.value
        IN
        IF FallbackApplies(bootstrapStack)
          THEN
            LET warn == WarnEvent([type |-> "could not read SSM parameter",
                                   param |-> Get(ssmParameterName),
                                   cause |-> e,
                                   stack |-> bootstrapStack])
                v == doValidate(Get(expectedVersion), bootstrapStack.version, environment, notices)
            IN [cache |-> look.cache,
                events |-> tried.events \o look.events \o << warn >> \o v.events,
                result |-> v.result]
          ELSE [cache |-> look.cache,
                events |-> tried.events \o look.events,
                result |-> Throw(ToolkitError([type |-> "error during confirmation via SSM parameter",
                                               expected |-> Get(expectedVersion),
                                               param |-> Get(ssmParameterName),
                                               cause |-> e]))]
  ELSE
    LET look == LookupToolkit(c, info)
        version == VersionOf(look.result.value)
    IN
    IF ~version.ok
      THEN [cache |-> look.cache, events |-> look.events, result |-> version]
      ELSE LET v == doValidate(Get(expectedVersion), version.value, environment, notices) IN
           [cache |-> look.cache, events |-> look.events \o v.events, result |-> v.result]



(***************************************************************************)
(* PART B.  deploy-bootstrap.ts and bootstrap-environment.ts               *)
(*                                                                         *)
(* Texts (parameter values, names, ARNs) are sequences of letters; a       *)
(* letter is one character or an indivisible run of word characters, so    *)
(* that join and split act on them as they do on strings.                  *)
(***************************************************************************)
\* Array.prototype.join(sep) on a list of texts.
RECURSIVE JoinText(_, _)
JoinText(list, sep) ==
  IF Len(list) = 0 THEN << >>
  ELSE IF Len(list) = 1 THEN list[1]
  ELSE list[1] \o << sep >> \o JoinText(Tail(list), sep)

\* String.prototype.split(sep): the empty text splits into one empty text.
RECURSIVE SplitText(_, _)
SplitText(s, sep) ==
  IF \A i \in 1..Len(s) : s[i] # sep THEN << s >>
  ELSE LET i == CHOOSE k \in 1..Len(s) : s[k] = sep /\ \A j \in 1..(k - 1) : s[j] # sep
       IN << SubSeq(s, 1, i - 1) >> \o SplitText(SubSeq(s, i + 1, Len(s)), sep)

\* A faulty splitCfnArray that splits the empty string like any other.
splitCfnArrayOfAny(xs) ==
  IF ~IsSome(xs) THEN << >> ELSE SplitText(Get(xs), ",")

\* splitCfnArray
splitCfnArray(xs) ==
  IF ~IsSome(xs) \/ Get(xs) = << >> THEN << >> ELSE SplitText(Get(xs), ",")

\* A faulty intersection that finds nothing in common.
intersectionNone(xs, ys) == {}

\* intersection of two lists, as sets
intersection(xs, ys) == {xs[i] : i \in 1..Len(xs)} \cap {ys[i] : i \in 1..Len(ys)}

\* The elements of an optional list (`xs ?? []`).
OrEmpty(xs) == IF IsSome(xs) THEN Get(xs) ELSE << >>

\* A faulty resolution that forgets what the existing stack holds.
GivenOrNothing(given, parameter) == OrEmpty(given)

\* `given ?? splitCfnArray(parameter)`: the list the caller gave, else the
\* one the existing stack holds under the parameter.
GivenOrExisting(given, parameter) ==
  IF IsSome(given) THEN Get(given) ELSE splitCfnArray(parameter)

\* bootstrap-props.ts
DEFAULT_BOOTSTRAP_VARIANT == "AWS CDK: Default Resources"
\* toolkit-info.ts
DEFAULT_TOOLKIT_STACK_NAME == "CDKToolkit"

USE_AWS_MANAGED_KEY == << "AWS_MANAGED_KEY" >>
CREATE_NEW_KEY == << >>
CDK_BOOTSTRAP_PERMISSIONS_BOUNDARY == << "CDK_BOOTSTRAP_PERMISSIONS_BOUNDARY" >>

\* A value of the template: absent, a number, or a string of characters.
Undefined == [type |-> "undefined"]
Number(n) == [type |-> "number", value |-> n]
String(s) == [type |-> "string", text |-> s]

\* bootstrapVersionFromTemplate: the first of the version output and the
\* version resource that is a number or a string parseInt reads.
RECURSIVE VersionFromSources(_)
VersionFromSources(versionSources) ==
  IF Len(versionSources) = 0 THEN 0
  ELSE LET vs == Head(versionSources) IN
       IF vs.type = "number" THEN vs.value
       ELSE IF vs.type = "string" /\ IsSome(ParseInt(vs.text)) THEN Get(ParseInt(vs.text))
       ELSE VersionFromSources(Tail(versionSources))

bootstrapVersionFromTemplate(template) ==
  VersionFromSources(<< template.outputVersion, template.resourceVersion >>)

\* bootstrapVariantFromTemplate
bootstrapVariantFromTemplate(template) ==
  IF IsSome(template.variantDefault) THEN Get(template.variantDefault)
  ELSE DEFAULT_BOOTSTRAP_VARIANT

\* The parameters of a bootstrap stack the orchestrator reads or writes.
ParameterNames ==
  {"FileAssetsBucketName", "FileAssetsBucketKmsKeyId", "TrustedAccounts",
   "TrustedAccountsForLookup", "CloudFormationExecutionPolicies", "Qualifier",
   "PublicAccessBlockConfiguration", "InputPermissionsBoundary"}
NoParameters == [k \in ParameterNames |-> None]

\* The defaults the modern bootstrap template declares for them.
TemplateDefaults ==
  [k \in ParameterNames |->
     IF k = "Qualifier" THEN << "hnb659fds" >>
     ELSE IF k = "PublicAccessBlockConfiguration" THEN << "true" >>
     ELSE << >>]

\* The bootstrap stack of the environment as CloudFormation holds it, which
\* is also what ToolkitInfo.lookup reports of it.
StackId == "arn:aws:cloudformation:stack/CDKToolkit"
NoStack ==
  [found |-> FALSE, version |-> 0, variant |-> DEFAULT_BOOTSTRAP_VARIANT,
   parameters |-> NoParameters, terminationProtection |-> FALSE, stackId |-> StackId]

\* Events of a bootstrap invocation.
Event(name) == [ev |-> name]
InfoEvent(msg) == [ev |-> "info", message |-> msg]
GateEvent(verdict) == [ev |-> "safety gate", verdict |-> verdict]
DeployEvent(template, parameters, options) ==
  [ev |-> "deployStack", template |-> template, parameters |-> parameters,
   terminationProtection |-> options.terminationProtection,
   forceDeployment |-> options.forceDeployment,
   usePreviousParameters |-> options.usePreviousParameters]
\* The events that are calls to a remote collaborator.
RemoteEventNames ==
  {"sdkProvider.resolveEnvironment", "sdkProvider.forEnvironment", "ToolkitInfo.lookup",
   "sdk.currentAccount", "iam.getPolicy", "iam.createPolicy", "deployStack"}
RemoteEvents(events) == SelectSeq(events, LAMBDA x : x.ev \in RemoteEventNames)

\* deployStack: the deployment executor.  It deploys the template with the
\* given parameters, reusing the previous value of a parameter that is not
\* given, or finds nothing to change, or fails.
DeployOutcomes == {"deployed", "unchanged", "failed"}
deployStack(cloud, template, parameters, options, outcome) ==
  IF outcome = "failed"
    THEN [cloud |-> cloud, result |-> Throw([name |-> "DeploymentError",
                                             message |-> [type |-> "deployment failed"]])]
  ELSE IF outcome = "unchanged" /\ cloud.found
    THEN [cloud |-> cloud,
          result |-> Return([type |-> "did-deploy-stack", noOp |-> TRUE,
                             outputs |-> << cloud.version >>, stackArn |-> cloud.stackId])]
  ELSE
    LET newParameters ==
          [k \in ParameterNames |->
             IF ~template.declaresParameters THEN None
             ELSE IF IsSome(parameters[k]) THEN parameters[k]
             ELSE IF options.usePreviousParameters /\ cloud.found /\ IsSome(cloud.parameters[k])
               THEN cloud.parameters[k]
             ELSE Some(TemplateDefaults[k])]
        stack == [found |-> TRUE,
                  version |-> bootstrapVersionFromTemplate(template),
                  variant |-> bootstrapVariantFromTemplate(template),
                  parameters |-> newParameters,
                  terminationProtection |-> options.terminationProtection,
                  stackId |-> StackId]
    IN [cloud |-> stack,
        result |-> Return([type |-> "did-deploy-stack", noOp |-> FALSE,
                           outputs |-> << stack.version >>, stackArn |-> StackId])]

\* BootstrapStack.lookup: the remote calls it makes; the BootstrapStack it
\* returns holds the ToolkitInfo looked up, which is the stack as deployed.
BootstrapStackLookup ==
  << Event("sdkProvider.resolveEnvironment"), Event("sdkProvider.forEnvironment"),
     Event("ToolkitInfo.lookup") >>

\* A faulty getter that never reports the protection of the stack.
TerminationProtectionUnknown(current) == None

\* BootstrapStack.terminationProtection
TerminationProtectionOf(current) ==
  IF current.found THEN Some(current.terminationProtection) ELSE None

\* The conditions of the safety gate of BootstrapStack.update:
\* `if (this.currentToolkitInfo.found && !options.forceDeployment)`,
\* `if (currentVariant !== newVariant)`, `if (newVersion < currentVersion)`.
\* Faulty gate conditions: a gate that the force flag does not open, a
\* variant check and a version check that never fire.
GatedDespiteForce(current, options) == current.found
VariantDiffersNever(currentVariant, newVariant) == FALSE
IsDowngradeNever(newVersion, currentVersion) == FALSE

Gated(current, options) == current.found /\ ~options.forceDeployment

\* A faulty test that takes no downgrade for one to version 0.
TargetsVersionZeroNever(newVersion) == FALSE

\* `if (newVersion === 0)`, within the version check.
TargetsVersionZero(newVersion) == newVersion = 0
VariantDiffers(currentVariant, newVariant) == currentVariant # newVariant

\* A faulty version check that takes the same version for a downgrade.
IsDowngradeOrSame(newVersion, currentVersion) == newVersion <= currentVersion

IsDowngrade(newVersion, currentVersion) == newVersion < currentVersion

\* BootstrapStack.update.  current is the ToolkitInfo the BootstrapStack
\* holds, cloud the stack as deployed when update runs.  The first event of
\* an update tells what its safety gate decided.
update(current, cloud, template, parameters, options, outcome) ==
  LET abortResponse == Return([type |-> "did-deploy-stack", noOp |-> TRUE,
                               outputs |-> << >>, stackArn |-> current.stackId])
      gated == Gated(current, options)
      currentVariant == current.variant
      newVariant == bootstrapVariantFromTemplate(template)
      newVersion == bootstrapVersionFromTemplate(template)
      currentVersion == current.version
  IN
  IF gated /\ VariantDiffers(currentVariant, newVariant)
    THEN [cloud |-> cloud,
          events |-> << GateEvent("variant"),
                        WarnEvent([type |-> "not overwriting variant",
                                   current |-> currentVariant, new |-> newVariant]) >>,
          result |-> abortResponse]
  ELSE IF gated /\ IsDowngrade(newVersion, currentVersion)
    THEN [cloud |-> cloud,
          events |-> << GateEvent("version"),
                        WarnEvent([type |-> "not downgrading",
                                   current |-> currentVersion, new |-> newVersion]) >>
                     \o (IF TargetsVersionZero(newVersion)
                           THEN << WarnEvent([type |-> "did you set the feature flag"]) >>
                           ELSE << >>),
          result |-> abortResponse]
  ELSE
    LET deployOptions == [forceDeployment |-> options.forceDeployment,
                          terminationProtection |->
                            IF IsSome(options.terminationProtection)
                              THEN Get(options.terminationProtection) ELSE FALSE,
                          usePreviousParameters |->
                            IF IsSome(options.usePreviousParameters)
                              THEN Get(options.usePreviousParameters) ELSE TRUE]
        d == deployStack(cloud, template, parameters, deployOptions, outcome)
    IN [cloud |-> d.cloud,
        events |-> << GateEvent(IF gated THEN "pass" ELSE "skipped"),
                      DeployEvent(template, parameters, deployOptions) >>,
        result |-> d.result]

\* What a step of an invocation leaves: the deployed stack, the IAM policies
\* of the account, the events so far and the result.
Outcome(cloud, iam, events, result) ==
  [cloud |-> cloud, iam |-> iam, events |-> events, result |-> result]

\* BootstrappingParameters with nothing given.
NoParams ==
  [bucketName |-> None, kmsKeyId |-> None, createCustomerMasterKey |-> None,
   trustedAccounts |-> None, trustedAccountsForLookup |-> None,
   untrustedAccounts |-> None, cloudFormationExecutionPolicies |-> None,
   qualifier |-> None, publicAccessBlockConfiguration |-> None,
   examplePermissionsBoundary |-> None, customPermissionsBoundary |-> None]

\* BootstrapEnvironmentOptions with nothing given.
NoOptions ==
  [parameters |-> NoParams, forceDeployment |-> FALSE,
   terminationProtection |-> None, usePreviousParameters |-> None]

\* The template legacyBootstrapTemplate builds: it declares no version, no
\* variant and none of the modern parameters.
LegacyTemplate ==
  [outputVersion |-> Undefined, resourceVersion |-> Undefined,
   variantDefault |-> None, declaresParameters |-> FALSE]

\* Bootstrapper.loadTemplate: the custom file, the bundled template, or the
\* legacy template.
loadTemplate(source) ==
  IF source.source = "legacy" THEN LegacyTemplate ELSE source.template

\* BootstrapStack.parameters
ParametersOf(current) == IF current.found THEN current.parameters ELSE NoParameters

\* A faulty length test that takes every list for empty.
HasLengthNever(xs) == FALSE

\* `xs?.length`: a list that is given and not empty.
HasLength(xs) == IsSome(xs) /\ Len(Get(xs)) > 0

\* Bootstrapper.legacyBootstrap
legacyBootstrap(cloud, iam, source, options, outcome) ==
  LET params == options.parameters IN
  IF HasLength(params.trustedAccounts)
    THEN Outcome(cloud, iam, << >>, Throw(ToolkitError([type |-> "modern only", flag |-> "--trust"])))
  ELSE IF HasLength(params.cloudFormationExecutionPolicies)
    THEN Outcome(cloud, iam, << >>,
                 Throw(ToolkitError([type |-> "modern only",
                                     flag |-> "--cloudformation-execution-policies"])))
  ELSE IF IsSome(params.createCustomerMasterKey)
    THEN Outcome(cloud, iam, << >>,
                 Throw(ToolkitError([type |-> "modern only", flag |-> "--bootstrap-customer-key"])))
  ELSE IF IsSome(params.qualifier) /\ Get(params.qualifier) # << >>
    THEN Outcome(cloud, iam, << >>,
                 Throw(ToolkitError([type |-> "modern only", flag |-> "--qualifier"])))
  ELSE
    LET current == cloud
        u == update(current, cloud, loadTemplate(source), NoParameters,
                    [options EXCEPT !.terminationProtection =
                       IF IsSome(@) THEN @ ELSE TerminationProtectionOf(current)],
                    outcome)
    IN Outcome(u.cloud, iam, BootstrapStackLookup \o u.events, u.result)

\* The environment that is bootstrapped, and the partition of its account.
BootAccount == "111111111111"
Partition == "aws"

\* The characters an IAM policy name may hold ([\w+/=,.@-]); the letters of
\* the model that are runs of word characters, and the ones that are not.
InvalidLetters == {"!", " ", "*"}

\* Bootstrapper.validatePolicyName: the first match of the pattern must be
\* the whole name.
ValidPolicyName(permissionsBoundary) ==
  /\ Len(permissionsBoundary) > 0
  /\ \A i \in 1..Len(permissionsBoundary) : permissionsBoundary[i] \notin InvalidLetters

\* What IAM answers to the calls about the example policy.
IamAnswers ==
  {"ok", "getPolicy fails", "getPolicy returns no policy", "createPolicy returns no arn"}

ExamplePolicyName(qualifier) == << "cdk-" >> \o qualifier \o << "-permissions-boundary" >>

\* iam.getPolicy: the policy when the account holds it, the error
\* NoSuchEntity when it does not; or else what the oracle says, another
\* error or a response without a policy.
getPolicy(iam, policyName, arn, iamAnswer) ==
  IF iamAnswer = "getPolicy fails" THEN Throw(SdkError("AccessDenied"))
  ELSE IF iamAnswer = "getPolicy returns no policy" THEN Return(None)
  ELSE IF policyName \in iam THEN Return(Some(arn))
  ELSE Throw(SdkError("NoSuchEntity"))

\* iam.createPolicy: refused for a name the account holds already; else the
\* policy is created, and the response holds its ARN unless the oracle says
\* it does not.
createPolicy(iam, policyName, arn, iamAnswer) ==
  IF policyName \in iam
    THEN [iam |-> iam, response |-> Throw(SdkError("EntityAlreadyExists"))]
  ELSE [iam |-> iam \cup {policyName},
        response |-> IF iamAnswer = "createPolicy returns no arn" THEN Return(None)
                     ELSE Return(Some(arn))]

\* A faulty test that takes every error of the lookup for NoSuchEntity.
IsNoSuchEntityAlways(e) == TRUE

\* `if (e.name === 'NoSuchEntity')`
IsNoSuchEntity(e) == e.name = "NoSuchEntity"

\* What getExamplePermissionsBoundary makes of the response of
\* iam.getPolicy and, if it comes to that, of the one of iam.createPolicy.
ExamplePolicyOutcome(iam, arn, policyName, getPolicyResp, created) ==
  LET get == << [ev |-> "iam.getPolicy", arn |-> arn, answer |-> getPolicyResp] >>
      create == << [ev |-> "iam.createPolicy", name |-> policyName] >>
  IN
  IF getPolicyResp.ok /\ IsSome(getPolicyResp.value)
    THEN [iam |-> iam, events |-> get, result |-> Return(arn)]
  ELSE IF ~getPolicyResp.ok /\ ~IsNoSuchEntity(getPolicyResp.error)
    THEN [iam |-> iam, events |-> get, result |-> getPolicyResp]
  ELSE IF ~created.response.ok
    THEN [iam |-> created.iam, events |-> get \o create, result |-> created.response]
  ELSE IF IsSome(created.response.value)
    THEN [iam |-> created.iam, events |-> get \o create,
          result |-> Return(Get(created.response.value))]
  ELSE [iam |-> created.iam, events |-> get \o create,
        result |-> Throw(ToolkitError([type |-> "could not retrieve the example permission boundary",
                                       arn |-> arn]))]

\* Bootstrapper.getExamplePermissionsBoundary
getExamplePermissionsBoundary(iam, qualifier, partition, account, iamAnswer) ==
  LET policyName == ExamplePolicyName(qualifier)
      arn == << "arn:", partition, ":iam::", account, ":policy", "/" >> \o policyName
  IN CHOOSE outcome \in
       {ExamplePolicyOutcome(iam, arn, policyName, getPolicyResp, created) :
          getPolicyResp \in {getPolicy(iam, policyName, arn, iamAnswer)},
          created \in {createPolicy(iam, policyName, arn, iamAnswer)}} : TRUE

\* Bootstrapper.getPolicyName
getPolicyName(iam, account, permissionsBoundary, partition, params, iamAnswer) ==
  IF permissionsBoundary # CDK_BOOTSTRAP_PERMISSIONS_BOUNDARY
    THEN IF ValidPolicyName(permissionsBoundary)
           THEN [iam |-> iam, events |-> << >>, result |-> Return(permissionsBoundary)]
           ELSE [iam |-> iam, events |-> << >>,
                 result |-> Throw(ToolkitError([type |-> "permissions boundary name does not match the IAM conventions",
                                                name |-> permissionsBoundary]))]
  ELSE
    LET r == getExamplePermissionsBoundary(
               iam, IF IsSome(params.qualifier) THEN Get(params.qualifier) ELSE << "hnb659fds" >>,
               partition, account, iamAnswer)
    IN
    IF ~r.result.ok THEN r
    ELSE LET parts == SplitText(r.result.value, "/")
             policyName == parts[Len(parts)]
         IN IF policyName = << >>
              THEN [r EXCEPT !.result =
                      Throw(ToolkitError([type |-> "could not retrieve the example permission boundary"]))]
              ELSE [r EXCEPT !.result = Return(policyName)]

\* Faulty conditions: trust is never found to lack execution policies; the
\* boundary is always taken for changed.
TrustWithoutPoliciesNever(trustedAccounts, cloudFormationExecutionPolicies) == FALSE
BoundaryDiffersAlways(currentPermissionsBoundary, policyName) == TRUE
\* A faulty condition that lets a single trusted account pass.
TrustOfManyWithoutPolicies(trustedAccounts, cloudFormationExecutionPolicies) ==
  Len(trustedAccounts) > 1 /\ Len(cloudFormationExecutionPolicies) = 0

\* `else if (cloudFormationExecutionPolicies.length === 0)`, reached with
\* trusted accounts only.
TrustWithoutPolicies(trustedAccounts, cloudFormationExecutionPolicies) ==
  Len(trustedAccounts) # 0 /\ Len(cloudFormationExecutionPolicies) = 0
\* `if (currentPermissionsBoundary !== policyName)`
BoundaryDiffers(currentPermissionsBoundary, policyName) ==
  currentPermissionsBoundary # policyName

\* A faulty default policy of a fixed partition.
implicitPolicyOfChina(partition) ==
  << "arn:", "aws-cn", ":iam::aws:policy/AdministratorAccess" >>

\* `arn:${partition}:iam::aws:policy/AdministratorAccess`
implicitPolicy(partition) ==
  << "arn:", partition, ":iam::aws:policy/AdministratorAccess" >>

\* Bootstrapper.modernBootstrap
modernBootstrap(cloud, iam, source, options, iamAnswer, outcome) ==
  LET params == options.parameters
      bootstrapTemplate == loadTemplate(source)
      current == cloud
      partition == Partition
      looked == BootstrapStackLookup \o << Event("sdk.currentAccount") >>
      untrusted == OrEmpty(params.untrustedAccounts)
      allTrusted == OrEmpty(params.trustedAccounts) \o OrEmpty(params.trustedAccountsForLookup)
      invalid == intersection(allTrusted, untrusted)
      removeUntrusted(accounts) ==
        SelectSeq(accounts, LAMBDA acc : \A i \in 1..Len(untrusted) : untrusted[i] # acc)
      trustedAccounts ==
        removeUntrusted(GivenOrExisting(params.trustedAccounts,
                                        ParametersOf(current).TrustedAccounts))
      trustedAccountsForLookup ==
        removeUntrusted(GivenOrExisting(params.trustedAccountsForLookup,
                                        ParametersOf(current).TrustedAccountsForLookup))
      informed == looked \o << InfoEvent([type |-> "trusted accounts for deployment",
                                          accounts |-> trustedAccounts]),
                               InfoEvent([type |-> "trusted accounts for lookup",
                                          accounts |-> trustedAccountsForLookup]) >>
      cloudFormationExecutionPolicies ==
        GivenOrExisting(params.cloudFormationExecutionPolicies,
                        ParametersOf(current).CloudFormationExecutionPolicies)
      policied ==
        informed \o
          (IF Len(trustedAccounts) = 0 /\ Len(cloudFormationExecutionPolicies) = 0
             THEN << WarnEvent([type |-> "using default execution policy",
                                policy |-> implicitPolicy(partition)]) >>
             ELSE << InfoEvent([type |-> "execution policies",
                                policies |-> cloudFormationExecutionPolicies]) >>)
      currentKmsKeyId == ParametersOf(current).FileAssetsBucketKmsKeyId
      kmsKeyId ==
        IF IsSome(params.kmsKeyId) THEN params.kmsKeyId
        ELSE IF params.createCustomerMasterKey = Some(TRUE) THEN Some(CREATE_NEW_KEY)
        ELSE IF params.createCustomerMasterKey = Some(FALSE) \/ ~IsSome(currentKmsKeyId)
          THEN Some(USE_AWS_MANAGED_KEY)
        ELSE None
      currentPermissionsBoundary ==
        IF IsSome(ParametersOf(current).InputPermissionsBoundary)
             /\ Get(ParametersOf(current).InputPermissionsBoundary) # << >>
          THEN ParametersOf(current).InputPermissionsBoundary ELSE None
      inputPolicyName ==
        IF params.examplePermissionsBoundary = Some(TRUE)
          THEN Some(CDK_BOOTSTRAP_PERMISSIONS_BOUNDARY)
          ELSE params.customPermissionsBoundary
      named ==
        IF IsSome(inputPolicyName) /\ Get(inputPolicyName) # << >>
          THEN LET r == getPolicyName(iam, BootAccount, Get(inputPolicyName), partition,
                                      params, iamAnswer)
               IN [iam |-> r.iam,
                   events |-> << Event("sdkProvider.forEnvironment") >> \o r.events,
                   result |-> IF r.result.ok THEN Return(Some(r.result.value)) ELSE r.result]
          ELSE [iam |-> iam, events |-> << >>, result |-> Return(None)]
  IN
  IF IsSome(params.createCustomerMasterKey)
       /\ IsSome(params.kmsKeyId) /\ Get(params.kmsKeyId) # << >>
    THEN Outcome(cloud, iam, looked,
                 Throw(ToolkitError([type |-> "cannot pass kms key id and customer key together"])))
  ELSE IF invalid # {}
    THEN Outcome(cloud, iam, looked,
                 Throw(ToolkitError([type |-> "accounts cannot be both trusted and untrusted",
                                     found |-> invalid])))
  ELSE IF TrustWithoutPolicies(trustedAccounts, cloudFormationExecutionPolicies)
    THEN Outcome(cloud, iam, informed,
                 Throw(ToolkitError([type |-> "pass execution policies when using trust"])))
  ELSE IF ~named.result.ok
    THEN Outcome(cloud, named.iam, policied \o named.events, named.result)
  ELSE
    LET policyName == named.result.value
        boundary ==
          IF ~BoundaryDiffers(currentPermissionsBoundary, policyName) THEN << >>
          ELSE IF ~IsSome(currentPermissionsBoundary)
            THEN << WarnEvent([type |-> "adding new permissions boundary",
                               new |-> policyName]) >>
          ELSE IF ~IsSome(policyName)
            THEN << WarnEvent([type |-> "removing existing permissions boundary",
                               old |-> currentPermissionsBoundary]) >>
          ELSE << WarnEvent([type |-> "changing permissions boundary",
                             old |-> currentPermissionsBoundary, new |-> policyName]) >>
        parameters ==
          [k \in ParameterNames |->
             CASE k = "FileAssetsBucketName" -> params.bucketName
               [] k = "FileAssetsBucketKmsKeyId" -> kmsKeyId
               [] k = "TrustedAccounts" -> Some(JoinText(trustedAccounts, ","))
               [] k = "TrustedAccountsForLookup" -> Some(JoinText(trustedAccountsForLookup, ","))
               [] k = "CloudFormationExecutionPolicies" ->
                    Some(JoinText(cloudFormationExecutionPolicies, ","))
               [] k = "Qualifier" -> params.qualifier
               [] k = "PublicAccessBlockConfiguration" ->
                    IF params.publicAccessBlockConfiguration = Some(FALSE)
                      THEN Some(<< "false" >>) ELSE Some(<< "true" >>)
               [] k = "InputPermissionsBoundary" -> policyName]
        u == update(current, cloud, bootstrapTemplate, parameters,
                    [options EXCEPT !.terminationProtection =
                       IF IsSome(@) THEN @ ELSE TerminationProtectionOf(current)],
                    outcome)
    IN Outcome(u.cloud, named.iam, policied \o named.events \o boundary \o u.events, u.result)

\* A faulty customBootstrap that takes every template for a modern one.
customBootstrapModern(cloud, iam, source, options, iamAnswer, outcome) ==
  modernBootstrap(cloud, iam, source, options, iamAnswer, outcome)

\* Bootstrapper.customBootstrap
customBootstrap(cloud, iam, source, options, iamAnswer, outcome) ==
  LET version == bootstrapVersionFromTemplate(loadTemplate(source)) IN
  IF version = 0 THEN legacyBootstrap(cloud, iam, source, options, outcome)
  ELSE modernBootstrap(cloud, iam, source, options, iamAnswer, outcome)

\* Bootstrapper.bootstrapEnvironment
bootstrapEnvironment(cloud, iam, source, options, iamAnswer, outcome) ==
  CASE source.source = "legacy" -> legacyBootstrap(cloud, iam, source, options, outcome)
    [] source.source = "default" -> modernBootstrap(cloud, iam, source, options, iamAnswer, outcome)
    [] source.source = "custom" -> customBootstrap(cloud, iam, source, options, iamAnswer, outcome)

(***************************************************************************)
(* PART C.  The account identity cache (AccountAccessKeyCache): a file      *)
(* that maps the fingerprint of credentials (the access key id) to the     *)
(* account they belong to.  The text of the file is a sequence of tokens:   *)
(* an opening brace, one token per entry, a closing brace.                 *)
(***************************************************************************)
\* The cap on the entries of the store (AccountAccessKeyCache.MAX_ENTRIES),
\* scaled down.
MAX_ENTRIES == 2

Fingerprints == {"AKIA1", "AKIA2", "AKIA3"}
Accounts ==
  {[accountId |-> "111111111111", partition |-> "aws"],
   [accountId |-> "222222222222", partition |-> "aws-cn"]}

\* The tokens of a JSON object of entries.
OpenBrace == [t |-> "{"]
CloseBrace == [t |-> "}"]
EntryToken(entry) ==
  [t |-> "entry", key |-> entry.key,
   accountId |-> entry.account.accountId, partition |-> entry.account.partition]

\* Texts of a file that are no JSON: the empty file, and junk.
NonJsonTexts == {<< >>, << [t |-> "junk"] >>, << OpenBrace >>}

\* The map held in memory: its entries, in the order they were inserted.
MapGet(map, key) ==
  IF \E i \in 1..Len(map) : map[i].key = key
    THEN Some(map[CHOOSE i \in 1..Len(map) : map[i].key = key].account)
    ELSE None
MapPut(map, key, account) ==
  IF \E i \in 1..Len(map) : map[i].key = key
    THEN [i \in 1..Len(map) |->
            IF map[i].key = key THEN [key |-> key, account |-> account] ELSE map[i]]
    ELSE Append(map, [key |-> key, account |-> account])

\* JSON.stringify of the map, and JSON.parse of a text (None: a SyntaxError).
RECURSIVE EntryTokens(_)
EntryTokens(map) ==
  IF Len(map) = 0 THEN << >> ELSE << EntryToken(Head(map)) >> \o EntryTokens(Tail(map))
Stringify(map) == << OpenBrace >> \o EntryTokens(map) \o << CloseBrace >>

RECURSIVE EntriesOfTokens(_)
EntriesOfTokens(tokens) ==
  IF Len(tokens) = 0 THEN << >>
  ELSE << [key |-> Head(tokens).key,
           account |-> [accountId |-> Head(tokens).accountId,
                        partition |-> Head(tokens).partition]] >>
         \o EntriesOfTokens(Tail(tokens))
ParseJson(text) ==
  IF /\ Len(text) >= 2
     /\ text[1] = OpenBrace
     /\ text[Len(text)] = CloseBrace
     /\ \A i \in 2..(Len(text) - 1) : text[i].t = "entry"
    THEN Some(EntriesOfTokens(SubSeq(text, 2, Len(text) - 1)))
    ELSE None

\* The cache file and its directory as the file system holds them: whether
\* the process may use them, the text of the file (None: no file) and the
\* text of the temporary file of a write in progress.
NoCacheFile == [access |-> "ok", content |-> None, temp |-> None]

\* Events of the cache.
ReadEvent(fs) ==
  [ev |-> "fs.readJson", read |-> IF fs.access = "denied" THEN None ELSE fs.content]
WriteEvent(fs) ==
  [ev |-> "fs.writeJson", done |-> fs.access # "denied"]
ResolverEvent(account) == [ev |-> "resolver", answer |-> account]

\* A faulty loadMap that lets the error of a file that is no JSON through.
loadMapStrict(fs) ==
  IF fs.access = "denied" \/ ~IsSome(fs.content) THEN Return(<< >>)
  ELSE IF IsSome(ParseJson(Get(fs.content))) THEN Return(Get(ParseJson(Get(fs.content))))
  ELSE Throw([name |-> "SyntaxError", message |-> [type |-> "not JSON"]])

\* loadMap: the map read from the file; a file that is missing, may not be
\* read or holds no JSON is an empty map.
loadMap(fs) ==
  IF fs.access = "denied" \/ ~IsSome(fs.content) THEN Return(<< >>)
  ELSE IF IsSome(ParseJson(Get(fs.content))) THEN Return(Get(ParseJson(Get(fs.content))))
  ELSE Return(<< >>)

\* A faulty write that truncates the cache file itself and fills it later.
writeTempInPlace(fs, text) ==
  IF fs.access = "denied" THEN fs
  ELSE [fs EXCEPT !.content = Some(<< >>), !.temp = Some(text)]

\* The two steps of the scoped write of the file: the whole text goes to a
\* temporary file, which is then renamed to the cache file.  Where the
\* directory cannot be made or written, nothing is written and no error is
\* raised.
writeTemp(fs, text) ==
  IF fs.access = "denied" THEN fs ELSE [fs EXCEPT !.temp = Some(text)]
rename(fs) ==
  IF IsSome(fs.temp) THEN [fs EXCEPT !.content = fs.temp, !.temp = None] ELSE fs

\* A faulty saveMap that writes nothing.
saveMapNever(fs, map) == fs

\* saveMap
saveMap(fs, map) == rename(writeTemp(fs, Stringify(map)))

\* A faulty cap test that lets the store grow one entry beyond the cap.
CapExceeded(map) == Len(map) > MAX_ENTRIES

\* The store is cleared once it holds MAX_ENTRIES entries.
CapReached(map) == Len(map) >= MAX_ENTRIES

\* The map a put writes: the map loaded, emptied if the cap is reached, with
\* the entry set.
MapToSave(loaded, fingerprint, account) ==
  MapPut(IF CapReached(loaded) THEN << >> ELSE loaded, fingerprint, account)

\* AccountAccessKeyCache.get
get(fs, fingerprint) ==
  LET loaded == loadMap(fs) IN
  [fs |-> fs, events |-> << ReadEvent(fs) >>,
   result |-> IF loaded.ok THEN Return(MapGet(loaded.value, fingerprint)) ELSE loaded]

\* AccountAccessKeyCache.put
put(fs, fingerprint, account) ==
  LET loaded == loadMap(fs) IN
  IF ~loaded.ok THEN [fs |-> fs, events |-> << ReadEvent(fs) >>, result |-> loaded]
  ELSE [fs |-> saveMap(fs, MapToSave(loaded.value, fingerprint, account)),
        events |-> << ReadEvent(fs), WriteEvent(fs) >>,
        result |-> Return(Void)]

\* A faulty fetch that asks the resolver whatever the cache holds.
fetchAlwaysResolves(fs, fingerprint, resolved) ==
  LET stored == put(fs, fingerprint, resolved) IN
  [fs |-> stored.fs,
   events |-> << ReadEvent(fs), ResolverEvent(resolved) >> \o stored.events,
   result |-> IF stored.result.ok THEN Return(resolved) ELSE stored.result]

\* AccountAccessKeyCache.fetch; resolved is what the resolver answers when
\* it is called.
fetch(fs, fingerprint, resolved) ==
  LET cached == get(fs, fingerprint) IN
  IF ~cached.result.ok THEN cached
  ELSE IF IsSome(cached.result.value)
    THEN [fs |-> fs, events |-> cached.events, result |-> Return(Get(cached.result.value))]
  ELSE LET stored == put(fs, fingerprint, resolved) IN
       [fs |-> stored.fs,
        events |-> cached.events \o << ResolverEvent(resolved) >> \o stored.events,
        result |-> IF stored.result.ok THEN Return(resolved) ELSE stored.result]

(***************************************************************************)
(* PART D.  Fn::ImportValue of the intrinsic evaluator                      *)
(* (EvaluateCloudFormationTemplate): the exports of the account are listed *)
(* page by page and kept by the evaluator.                                 *)
(***************************************************************************)
\* The longest listing, in pages, and the cap on the listing calls counted.
MaxPages == 2
MaxListCalls == 4

ExportNames == {"test-name-1", "test-name-2", "test-name-3"}
ImportNames == ExportNames \cup {"blah"}
ExportValue(name) ==
  CASE name = "test-name-1" -> "test-value-1"
    [] name = "test-name-2" -> "test-value-2"
    [] name = "test-name-3" -> "test-value-3"

\* The listings the account may hold: one to MaxPages pages of exports.
PageLists == UNION {[1..n -> SUBSET ExportNames] : n \in 1..MaxPages}

\* The continuation token handed out with page i names page i + 1.
\* listExports(token): the page, its exports as {Name, Value}, and the token
\* of the next page, if any.
listExports(pages, token) ==
  LET i == IF IsSome(token) THEN Get(token) + 1 ELSE 1 IN
  [Exports |-> {[Name |-> n, Value |-> ExportValue(n)] : n \in pages[i]},
   NextToken |-> IF i < Len(pages) THEN Some(i) ELSE None]

ListExportsEvent(token, response) ==
  [ev |-> "cfn.listExports", token |-> token, answer |-> response]

\* The calls that list every page, following the tokens until none is left.
RECURSIVE ListAllExports(_, _)
ListAllExports(pages, token) ==
  LET response == listExports(pages, token) IN
  << ListExportsEvent(token, response) >>
    \o (IF IsSome(response.NextToken)
          THEN ListAllExports(pages, response.NextToken)
          ELSE << >>)

\* A faulty collection that keeps the exports of the first page only.
ExportsOfFirstPage(calls) ==
  [n \in {x.Name : x \in calls[1].answer.Exports} |->
     (CHOOSE x \in calls[1].answer.Exports : x.Name = n).Value]

\* The exports of the calls, by name.
ExportsByName(calls) ==
  LET all == UNION {calls[i].answer.Exports : i \in 1..Len(calls)} IN
  [n \in {x.Name : x \in all} |-> (CHOOSE x \in all : x.Name = n).Value]

NewEvaluator == [exports |-> None]

CfnEvaluationException(msg) == [name |-> "CfnEvaluationException", message |-> msg]

\* A faulty evaluator that does not keep the exports it listed.
RememberExportsNever(evaluator, exports) == evaluator

\* The evaluator keeps the exports it listed.
RememberExports(evaluator, exports) == [evaluator EXCEPT !.exports = Some(exports)]

\* The value of the export, or the error that names it.
ResolveExport(exports, name) ==
  IF name \in DOMAIN exports
    THEN Return(exports[name])
    ELSE Throw(CfnEvaluationException([type |-> "cannot resolve export", name |-> name]))

\* evaluateCfnExpression({'Fn::ImportValue': name})
ImportValue(evaluator, pages, name) ==
  IF IsSome(evaluator.exports)
    THEN [evaluator |-> evaluator, events |-> << >>,
          result |-> ResolveExport(Get(evaluator.exports), name)]
    ELSE LET calls == ListAllExports(pages, None) IN
         [evaluator |-> RememberExports(evaluator, ExportsByName(calls)),
          events |-> calls,
          result |-> ResolveExport(ExportsByName(calls), name)]

(***************************************************************************)
(* PART E.  evaluateCfnExpression of the intrinsic evaluator: a recursive   *)
(* evaluation of a tree of values.  A value is a text (a string of         *)
(* letters), a numeral, a list of values or a mapping of keys to values;   *)
(* every value carries the same fields, of which its type uses one: its    *)
(* text, its number, its items, or its keys with their items.              *)
(***************************************************************************)
Node(type, text, number, items, keys) ==
  [type |-> type, text |-> text, number |-> number, items |-> items, keys |-> keys]
Text(s) == Node("string", s, 0, << >>, << >>)
Numeral(n) == Node("number", << >>, n, << >>, << >>)
List(xs) == Node("list", << >>, 0, xs, << >>)
Pair(key, value) == [key |-> key, value |-> value]
Mapping(pairs) ==
  Node("map", << >>, 0,
       [i \in 1..Len(pairs) |-> pairs[i].value], [i \in 1..Len(pairs) |-> pairs[i].key])
\* A mapping with a single key, the form of a function call.
Single(key, value) == Mapping(<< Pair(key, value) >>)

IsText(v) == v.type = "string"
IsList(v) == v.type = "list"
IsTexts(v) == IsList(v) /\ \A i \in 1..Len(v.items) : IsText(v.items[i])

\* The functions the evaluator resolves.
RecognizedFunctions == {"Fn::Join", "Fn::Split", "Fn::Select", "Fn::Sub", "Fn::ImportValue"}

EvaluationError(type, about) ==
  Throw(CfnEvaluationException([type |-> type, about |-> about]))

\* Fn::Join: [delimiter, list]
fnJoin(args) ==
  IF /\ IsList(args) /\ Len(args.items) = 2
     /\ IsText(args.items[1]) /\ Len(args.items[1].text) = 1
     /\ IsTexts(args.items[2])
    THEN Return(Text(JoinText([i \in 1..Len(args.items[2].items) |-> args.items[2].items[i].text],
                              args.items[1].text[1])))
    ELSE EvaluationError("arguments", "Fn::Join")

\* Fn::Split: [delimiter, string]
fnSplit(args) ==
  IF /\ IsList(args) /\ Len(args.items) = 2
     /\ IsText(args.items[1]) /\ Len(args.items[1].text) = 1
     /\ IsText(args.items[2])
    THEN LET parts == SplitText(args.items[2].text, args.items[1].text[1]) IN
         Return(List([i \in 1..Len(parts) |-> Text(parts[i])]))
    ELSE EvaluationError("arguments", "Fn::Split")

\* The index of Fn::Select as an integer (None: not a number).
IndexOf(v) ==
  IF v.type = "number" THEN Some(v.number)
  ELSE IF IsText(v) THEN ParseInt(v.text)
  ELSE None

\* A faulty Fn::Select that counts the elements from one.
fnSelectFromOne(args) ==
  IF /\ IsList(args) /\ Len(args.items) = 2
     /\ IsSome(IndexOf(args.items[1]))
     /\ IsList(args.items[2])
    THEN IF Get(IndexOf(args.items[1])) \in 1..Len(args.items[2].items)
           THEN Return(args.items[2].items[Get(IndexOf(args.items[1]))])
           ELSE EvaluationError("out of range", "Fn::Select")
    ELSE EvaluationError("arguments", "Fn::Select")

\* Fn::Select: [index, list]; the elements count from zero.
fnSelect(args) ==
  IF /\ IsList(args) /\ Len(args.items) = 2
     /\ IsSome(IndexOf(args.items[1]))
     /\ IsList(args.items[2])
    THEN IF Get(IndexOf(args.items[1])) + 1 \in 1..Len(args.items[2].items)
           THEN Return(args.items[2].items[Get(IndexOf(args.items[1])) + 1])
           ELSE EvaluationError("out of range", "Fn::Select")
    ELSE EvaluationError("arguments", "Fn::Select")

\* The text of a substitution value (None: it has none).
Stringified(v) ==
  IF IsText(v) THEN Some(v.text)
  ELSE IF v.type = "number" THEN Some(DecimalString(v.number))
  ELSE None

\* The value a mapping holds under the name, stringified.
Substitution(map, name) ==
  IF \E i \in 1..Len(map.keys) : name = << map.keys[i] >>
    THEN Stringified(map.items[CHOOSE i \in 1..Len(map.keys) : name = << map.keys[i] >>])
    ELSE None

\* The place of the first closing brace of the text, 0 if it has none.
ClosingBrace(t) ==
  IF \E j \in 1..Len(t) : t[j] = "}"
    THEN CHOOSE j \in 1..Len(t) : t[j] = "}" /\ \A k \in 1..(j - 1) : t[k] # "}"
    ELSE 0

\* The template with every ${name} replaced (None: a name has no value).
RECURSIVE Substituted(_, _)
Substituted(t, map) ==
  IF Len(t) = 0 THEN Some(<< >>)
  ELSE IF Len(t) >= 3 /\ t[1] = "$" /\ t[2] = "{" /\ ClosingBrace(t) > 0
    THEN LET j == ClosingBrace(t)
             value == Substitution(map, SubSeq(t, 3, j - 1))
             rest == Substituted(SubSeq(t, j + 1, Len(t)), map)
         IN IF IsSome(value) /\ IsSome(rest) THEN Some(Get(value) \o Get(rest)) ELSE None
  ELSE LET rest == Substituted(Tail(t), map) IN
       IF IsSome(rest) THEN Some(<< Head(t) >> \o Get(rest)) ELSE None

\* Fn::Sub: [template, substitutions]
fnSub(args) ==
  IF /\ IsList(args) /\ Len(args.items) = 2
     /\ IsText(args.items[1])
     /\ args.items[2].type = "map"
    THEN IF IsSome(Substituted(args.items[1].text, args.items[2]))
           THEN Return(Text(Get(Substituted(args.items[1].text, args.items[2]))))
           ELSE EvaluationError("unresolved", "Fn::Sub")
    ELSE EvaluationError("arguments", "Fn::Sub")

\* The result of a function without remote calls.
ApplyFunction(name, args) ==
  CASE name = "Fn::Join" -> fnJoin(args)
    [] name = "Fn::Split" -> fnSplit(args)
    [] name = "Fn::Select" -> fnSelect(args)
    [] name = "Fn::Sub" -> fnSub(args)

\* Fn::ImportValue of an evaluated name.
fnImportValue(evaluator, pages, args) ==
  IF IsText(args) /\ Len(args.text) = 1
    THEN LET r == ImportValue(evaluator, pages, args.text[1]) IN
         [evaluator |-> r.evaluator, events |-> r.events,
          result |-> IF r.result.ok THEN Return(Text(<< r.result.value >>)) ELSE r.result]
    ELSE [evaluator |-> evaluator, events |-> << >>,
          result |-> EvaluationError("arguments", "Fn::ImportValue")]

\* A faulty pass-through that leaves the children as they were given.
ReconstructUnevaluated(node, values) == node

\* The mapping of the same keys with the evaluated children.
Reconstruct(node, values) == [node EXCEPT !.items = values]

\* evaluateCfnExpression, and the evaluation of the elements of a list one
\* after the other.
RECURSIVE evaluateCfnExpression(_, _, _)
RECURSIVE EvaluateAll(_, _, _)
EvaluateAll(evaluator, pages, xs) ==
  IF Len(xs) = 0 THEN [evaluator |-> evaluator, events |-> << >>, result |-> Return(<< >>)]
  ELSE LET first == evaluateCfnExpression(evaluator, pages, Head(xs)) IN
       IF ~first.result.ok THEN first
       ELSE LET rest == EvaluateAll(first.evaluator, pages, Tail(xs)) IN
            [evaluator |-> rest.evaluator,
             events |-> first.events \o rest.events,
             result |-> IF rest.result.ok
                          THEN Return(<< first.result.value >> \o rest.result.value)
                          ELSE rest.result]

evaluateCfnExpression(evaluator, pages, node) ==
  IF node.type = "list"
    THEN LET elements == EvaluateAll(evaluator, pages, node.items) IN
         [elements EXCEPT !.result = IF @.ok THEN Return(List(@.value)) ELSE @]
  ELSE IF node.type = "map"
    THEN LET children == EvaluateAll(evaluator, pages, node.items) IN
         IF ~children.result.ok THEN children
         ELSE IF Len(node.keys) = 1 /\ node.keys[1] = "Fn::ImportValue"
           THEN LET r == fnImportValue(children.evaluator, pages, children.result.value[1]) IN
                [r EXCEPT !.events = children.events \o @]
         ELSE IF Len(node.keys) = 1 /\ node.keys[1] \in RecognizedFunctions
           THEN [children EXCEPT
                   !.result = ApplyFunction(node.keys[1], children.result.value[1])]
         ELSE [children EXCEPT
                 !.result = Return(Reconstruct(node, children.result.value))]
  ELSE [evaluator |-> evaluator, events |-> << >>, result |-> Return(node)]

(***************************************************************************)
(* State                                                                   *)
(***************************************************************************)
VARIABLES
  registry,     \* EnvironmentResourcesRegistry.cache: environment key -> EnvironmentCache
  lookupCalls,  \* per environment, the ToolkitInfo.lookup calls made through the registry
  deployed,     \* the bootstrap stack of the bootstrapped environment, as deployed
  iamPolicies,  \* the names of the customer managed IAM policies of its account
  cacheFile,    \* the file of the account identity cache, as the file system holds it
  writer,       \* the put of the account identity cache that is under way, if any
  evaluator,    \* the intrinsic evaluator: the exports it keeps
  cfn,          \* CloudFormation: the pages of its export listing, the listing calls made
  invocations,  \* the bootstrap invocations under way at once: template and stack looked up
  callers,      \* the lookupToolkit calls under way at once, and the fetches completed
  last          \* the last completed call: operation, arguments, events, result

vars == << registry, lookupCalls, deployed, iamPolicies, cacheFile, writer, evaluator, cfn,
          invocations, callers, last >>
envVars == << registry, lookupCalls, callers >>
bootVars == << deployed, iamPolicies, invocations >>
accountVars == << cacheFile, writer >>
evalVars == << evaluator, cfn >>

NoCall == [op |-> "none", events |-> << >>]

\* The bootstrap invocations that may run at once, and one that has not
\* started.
Invokers == {"first", "second"}
NotInvoked == [pc |-> "idle", template |-> LegacyTemplate, current |-> NoStack]

\* The callers of lookupToolkit that may run at once.
MaxCallers == 3
Callers == 1..MaxCallers
\* A call that has not started; and no call started, no fetch completed.
NotStarted == [pc |-> "idle", seen |-> 0, fetched |-> FALSE, result |-> None]
NoCallers == [calls |-> [p \in Callers |-> NotStarted], fetches |-> << >>]
NoWriter == [pc |-> "idle"]

\* The events of a given kind in a list of events, in order.
EventsOf(events, name) == SelectSeq(events, LAMBDA x : x.ev = name)
CountEvents(events, name) == Len(EventsOf(events, name))

Init ==
  /\ registry = << >>
  /\ lookupCalls = [e \in Envs |-> 0]
  /\ deployed = NoStack
  /\ iamPolicies = {}
  /\ cacheFile = NoCacheFile
  /\ writer = NoWriter
  /\ evaluator = NewEvaluator
  /\ cfn = [pages |-> None, listCalls |-> 0]
  /\ invocations = [p \in Invokers |-> NotInvoked]
  /\ callers = NoCallers
  /\ last = NoCall

\* A faulty registry that hands out a new cache on every use.
RegistryForFresh(reg, e) ==
  [k \in DOMAIN reg \cup {e} |-> IF k = e THEN emptyCache ELSE reg[k]]

\* EnvironmentResourcesRegistry.for: the environment's cache, made on first use.
RegistryFor(reg, e) ==
  IF e \in DOMAIN reg THEN reg
  ELSE [k \in DOMAIN reg \cup {e} |-> IF k = e THEN emptyCache ELSE reg[k]]

\* The registry with environment e's cache replaced by c (the cache object is
\* shared, so what a method writes to it is seen through the registry).
WithCache(reg, e, c) == [reg EXCEPT ![e] = c]

\* The answers a remote collaborator may give; one is drawn only where the
\* call can be made, so that an unused answer makes no new transition.
AnswersFor(need, answers) == IF need THEN answers ELSE {CHOOSE a \in answers : TRUE}

Finish(e, reg, returned, call) ==
  \E r \in {returned} :
  /\ registry' = WithCache(reg, e, r.cache)
  /\ lookupCalls' = [lookupCalls EXCEPT ![e] = @ + CountEvents(r.events, "ToolkitInfo.lookup")]
  /\ callers' = callers
  /\ last' = call @@ [env |-> e, events |-> r.events, result |-> r.result]
  /\ UNCHANGED << bootVars, accountVars, evalVars >>

\* registry.for(e, ...).lookupToolkit()
CallLookupToolkit(e, versions) ==
  /\ lookupCalls[e] < MaxLookupCalls
  /\ LET reg == RegistryFor(registry, e) IN
     \E info \in AnswersFor(~IsSome(reg[e].toolkitInfo), ToolkitInfosOver(versions)) :
       Finish(e, reg, LookupToolkit(reg[e], info), [op |-> "lookupToolkit"])

\* registry.for(e, ...).versionFromSsmParameter(p)
CallVersionFromSsmParameter(e, params, versions) ==
  /\ LET reg == RegistryFor(registry, e) IN
     \E p \in params :
       \E ans \in AnswersFor(p \notin DOMAIN reg[e].ssmParameters, SsmAnswersOver(versions)) :
         Finish(e, reg, VersionFromSsmParameter(reg[e], p, ans),
                [op |-> "versionFromSsmParameter", param |-> p])

\* registry.for(e, ...).validateVersion(expectedVersion, ssmParameterName)
CallValidateVersion(e, params, versions) ==
  /\ lookupCalls[e] < MaxLookupCalls
  /\ LET reg == RegistryFor(registry, e) IN
     \E expected \in {None} \cup {Some(v) : v \in versions},
        param \in {None} \cup {Some(p) : p \in params},
        notices \in BOOLEAN :
       \E ans \in AnswersFor(IsSome(expected) /\ IsSome(param)
                               /\ Get(param) \notin DOMAIN reg[e].ssmParameters,
                             SsmAnswersOver(versions)) :
         \E info \in AnswersFor(IsSome(expected) /\ ~IsSome(reg[e].toolkitInfo)
                                  /\ (IsSome(param) =>
                                        /\ Get(param) \notin DOMAIN reg[e].ssmParameters
                                        /\ ~ans.ok /\ ans.name = "AccessDeniedException"),
                                ToolkitInfosOver(versions)) :
           Finish(e, reg, validateVersion(reg[e], e, expected, param, ans, info, notices),
                  [op |-> "validateVersion", expected |-> expected, param |-> param,
                   notices |-> notices])

(***************************************************************************)
(* The lookup cache on its own: every environment and parameter name, two  *)
(* versions (enough to tell a stored answer from a fresh one).             *)
(***************************************************************************)
CacheVersions == {BOOTSTRAP_TEMPLATE_VERSION_INTRODUCING_GETPARAMETER - 1,
                  BOOTSTRAP_TEMPLATE_VERSION_INTRODUCING_GETPARAMETER}

NextCache ==
  \E e \in Envs :
    \/ CallLookupToolkit(e, CacheVersions)
    \/ CallVersionFromSsmParameter(e, ParamNames, CacheVersions)

SpecCache == Init /\ [][NextCache]_vars

(***************************************************************************)
(* lookupToolkit called at once by several callers for one environment:    *)
(* a call runs up to its `await ToolkitInfo.lookup(...)`, and from the      *)
(* answer to its return; the steps of different calls interleave.          *)
(***************************************************************************)
ValidatedEnv == CHOOSE e \in Envs : TRUE

\* A faulty store that keeps what the cache holds already.
StoreToolkitInfoIfEmpty(c, info) ==
  IF IsSome(c.toolkitInfo) THEN c ELSE [c EXCEPT !.toolkitInfo = Some(info)]

\* `this.cache.toolkitInfo = await ToolkitInfo.lookup(...)`, once the answer
\* is there.
StoreToolkitInfo(c, info) == [c EXCEPT !.toolkitInfo = Some(info)]

\* lookupToolkit up to its await: with a cache that holds the info the call
\* returns it; else it calls ToolkitInfo.lookup and waits.
StartLookup(e, p) ==
  /\ callers.calls[p].pc = "idle"
  /\ LET reg == RegistryFor(registry, e)
         seen == Len(callers.fetches)
     IN IF ~IsSome(reg[e].toolkitInfo)
          THEN /\ registry' = reg
               /\ lookupCalls' = [lookupCalls EXCEPT ![e] = @ + 1]
               /\ callers' = [callers EXCEPT !.calls[p] =
                                [pc |-> "fetching", seen |-> seen, fetched |-> TRUE,
                                 result |-> None]]
          ELSE /\ registry' = reg
               /\ lookupCalls' = lookupCalls
               /\ callers' = [callers EXCEPT !.calls[p] =
                                [pc |-> "done", seen |-> seen, fetched |-> FALSE,
                                 result |-> reg[e].toolkitInfo]]
  /\ UNCHANGED << bootVars, accountVars, evalVars, last >>

\* lookupToolkit from the answer of ToolkitInfo.lookup on: the info is
\* stored in the cache and what the cache holds is returned.
CompleteLookup(e, p, infos) ==
  /\ callers.calls[p].pc = "fetching"
  /\ \E info \in infos :
       \E c \in {StoreToolkitInfo(registry[e], info)} :
         /\ registry' = WithCache(registry, e, c)
         /\ callers' = [calls |-> [callers.calls EXCEPT ![p].pc = "done",
                                                       ![p].result = c.toolkitInfo],
                        fetches |-> Append(callers.fetches, info)]
  /\ UNCHANGED << lookupCalls, bootVars, accountVars, evalVars, last >>

NextLookupRace ==
  \E p \in Callers :
    \/ StartLookup(ValidatedEnv, p)
    \/ CompleteLookup(ValidatedEnv, p, ToolkitInfosOver(CacheVersions))

SpecLookupRace == Init /\ [][NextLookupRace]_vars

(***************************************************************************)
(* The version validator: one environment and one parameter name, every    *)
(* version.                                                                *)
(***************************************************************************)
ValidatedParams == {CHOOSE p \in ParamNames : TRUE}

NextValidate ==
  \/ CallLookupToolkit(ValidatedEnv, Versions)
  \/ CallVersionFromSsmParameter(ValidatedEnv, ValidatedParams, Versions)
  \/ CallValidateVersion(ValidatedEnv, ValidatedParams, Versions)

SpecValidate == Init /\ [][NextValidate]_vars

(***************************************************************************)
(* Bootstrap invocations, one after the other.                             *)
(***************************************************************************)
\* Bootstrapper.bootstrapEnvironment(environment, sdkProvider, options), from
\* BootstrapStack.lookup to the end of BootstrapStack.update.
CallBootstrapEnvironment(sources, optionsSet) ==
  \E source \in sources, options \in optionsSet, outcome \in DeployOutcomes :
    \E iamAnswer \in AnswersFor(options.parameters.examplePermissionsBoundary = Some(TRUE),
                                IamAnswers) :
    \E r \in {bootstrapEnvironment(deployed, iamPolicies, source, options, iamAnswer, outcome)} :
    /\ deployed' = r.cloud
    /\ iamPolicies' = r.iam
    /\ invocations' = invocations
    /\ last' = [op |-> "bootstrapEnvironment", source |-> source, options |-> options,
                current |-> deployed, events |-> r.events, result |-> r.result]
    /\ UNCHANGED << envVars, accountVars, evalVars >>

\* Template versions of the model.
MaxTemplateVersion == 2
TemplateVersions == 0..MaxTemplateVersion
TemplateVariants == {None, Some("other")}

\* A template that declares its version in the version output.
Template(version, variant, modern) ==
  [outputVersion |-> version, resourceVersion |-> Undefined,
   variantDefault |-> variant, declaresParameters |-> modern]

\* The sources of a Bootstrapper: legacy, the bundled modern template of some
\* release of the toolkit, or a custom template file.
BundledTemplates ==
  {Template(Number(v), Some(DEFAULT_BOOTSTRAP_VARIANT), TRUE) : v \in TemplateVersions \ {0}}
CustomTemplates ==
  {Template(Number(v), variant, v # 0) : v \in TemplateVersions, variant \in TemplateVariants}
Sources ==
  {[source |-> "legacy"]}
    \cup {[source |-> "default", template |-> t] : t \in BundledTemplates}
    \cup {[source |-> "custom", template |-> t] : t \in CustomTemplates}

(***************************************************************************)
(* The safety gate: every source, with and without the force flag and the  *)
(* example permissions boundary.                                           *)
(***************************************************************************)
GateOptions ==
  {[NoOptions EXCEPT !.forceDeployment = force,
                     !.parameters = [NoParams EXCEPT !.examplePermissionsBoundary = example]] :
     force \in BOOLEAN, example \in {None, Some(TRUE)}}

NextBoot == CallBootstrapEnvironment(Sources, GateOptions)

SpecBoot == Init /\ [][NextBoot]_vars

(***************************************************************************)
(* Configuration errors: the legacy flavor, the bundled template and a     *)
(* custom template without version, with every single argument and every   *)
(* pair of arguments out of ConfigArguments.                               *)
(***************************************************************************)
TrustedAccount == << "222222222222" >>
ExecutionPolicy == << "arn:aws:iam::aws:policy/AdministratorAccess" >>

\* BootstrappingParameters with one argument given.
ConfigArguments ==
  {[NoParams EXCEPT !.trustedAccounts = Some(<< TrustedAccount >>)],
   [NoParams EXCEPT !.trustedAccounts = Some(<< >>)],
   [NoParams EXCEPT !.untrustedAccounts = Some(<< TrustedAccount >>)],
   [NoParams EXCEPT !.cloudFormationExecutionPolicies = Some(<< ExecutionPolicy >>)],
   [NoParams EXCEPT !.createCustomerMasterKey = Some(TRUE)],
   [NoParams EXCEPT !.kmsKeyId = Some(<< "my-key" >>)],
   [NoParams EXCEPT !.customPermissionsBoundary = Some(<< "my-boundary", "!" >>)],
   [NoParams EXCEPT !.qualifier = Some(<< "abcdef" >>)],
   [NoParams EXCEPT !.qualifier = Some(<< >>)]}

\* The arguments of p, and those of q where p gives none.
MergeParams(p, q) == [k \in DOMAIN NoParams |-> IF IsSome(p[k]) THEN p[k] ELSE q[k]]

ConfigOptions ==
  {[NoOptions EXCEPT !.parameters = MergeParams(p, q)] :
     p \in ConfigArguments \cup {NoParams}, q \in ConfigArguments \cup {NoParams}}

ConfigSources ==
  {[source |-> "legacy"],
   [source |-> "default",
    template |-> Template(Number(MaxTemplateVersion), Some(DEFAULT_BOOTSTRAP_VARIANT), TRUE)],
   [source |-> "custom", template |-> Template(Undefined, None, FALSE)]}

NextConfig == CallBootstrapEnvironment(ConfigSources, ConfigOptions)

SpecConfig == Init /\ [][NextConfig]_vars

(***************************************************************************)
(* Trust: the bundled template, with the trusted and untrusted accounts    *)
(* and the execution policies given or left to the existing stack.         *)
(***************************************************************************)
OtherAccount == << "333333333333" >>
OtherPolicy == << "arn:aws:iam::aws:policy/ReadOnlyAccess" >>
TrustOptions ==
  {[NoOptions EXCEPT !.parameters =
      [NoParams EXCEPT !.trustedAccounts = trusted,
                       !.trustedAccountsForLookup = lookup,
                       !.untrustedAccounts = untrusted,
                       !.cloudFormationExecutionPolicies = policies]] :
     trusted \in {None, Some(<< >>), Some(<< TrustedAccount >>),
                  Some(<< TrustedAccount, OtherAccount >>)},
     lookup \in {None, Some(<< OtherAccount >>)},
     untrusted \in {None, Some(<< TrustedAccount >>), Some(<< OtherAccount >>)},
     policies \in {None, Some(<< >>), Some(<< ExecutionPolicy >>),
                   Some(<< ExecutionPolicy, OtherPolicy >>)}}
TrustSources ==
  {[source |-> "default",
    template |-> Template(Number(MaxTemplateVersion), Some(DEFAULT_BOOTSTRAP_VARIANT), TRUE)]}

NextTrust == CallBootstrapEnvironment(TrustSources, TrustOptions)

SpecTrust == Init /\ [][NextTrust]_vars

(***************************************************************************)
(* Keys and boundaries: the legacy and the bundled template, with the KMS  *)
(* key id, the customer key flag and a custom permissions boundary given   *)
(* or not.                                                                 *)
(***************************************************************************)
KeyOptions ==
  {[NoOptions EXCEPT !.parameters =
      [NoParams EXCEPT !.kmsKeyId = key,
                       !.createCustomerMasterKey = flag,
                       !.customPermissionsBoundary = boundary]] :
     key \in {None, Some(<< >>), Some(<< "my-key" >>)},
     flag \in {None, Some(TRUE), Some(FALSE)},
     boundary \in {None, Some(<< >>), Some(<< "boundary-a" >>), Some(<< "boundary-b" >>)}}
KeySources ==
  {[source |-> "legacy"],
   [source |-> "default",
    template |-> Template(Number(MaxTemplateVersion), Some(DEFAULT_BOOTSTRAP_VARIANT), TRUE)]}

NextKeys == CallBootstrapEnvironment(KeySources, KeyOptions)

SpecKeys == Init /\ [][NextKeys]_vars

(***************************************************************************)
(* Termination protection: the legacy and the bundled template, with the   *)
(* protection given or not, forced or not.                                 *)
(***************************************************************************)
ProtectionOptions ==
  {[NoOptions EXCEPT !.terminationProtection = protection,
                     !.forceDeployment = force,
                     !.parameters = [NoParams EXCEPT !.bucketName = bucket]] :
     protection \in {None, Some(TRUE), Some(FALSE)},
     force \in BOOLEAN,
     bucket \in {None, Some(<< "my-bucket" >>)}}

NextProtection == CallBootstrapEnvironment(KeySources, ProtectionOptions)

SpecProtection == Init /\ [][NextProtection]_vars

(***************************************************************************)
(* Flavors: the legacy source, the bundled template, and custom templates  *)
(* that declare their version as a number or a string, in the output or in *)
(* the resource, or not at all.                                            *)
(***************************************************************************)
DeclaredVersions ==
  {Undefined, Number(0), Number(MaxTemplateVersion), String(<< "0" >>),
   String(<< "1", "x" >>), String(<< "x" >>)}
FlavorTemplates ==
  {[outputVersion |-> output, resourceVersion |-> resource, variantDefault |-> None,
    declaresParameters |-> VersionFromSources(<< output, resource >>) # 0] :
     output \in DeclaredVersions, resource \in {Undefined, Number(1), String(<< "x" >>)}}
FlavorSources ==
  KeySources \cup {[source |-> "custom", template |-> t] : t \in FlavorTemplates}
FlavorOptions ==
  {[NoOptions EXCEPT !.forceDeployment = force,
                     !.parameters = [NoParams EXCEPT !.qualifier = qualifier]] :
     force \in BOOLEAN, qualifier \in {None, Some(<< "abcdef" >>)}}

NextFlavor == CallBootstrapEnvironment(FlavorSources, FlavorOptions)

SpecFlavor == Init /\ [][NextFlavor]_vars

(***************************************************************************)
(* Permissions boundaries: the legacy and the bundled template, with the   *)
(* example boundary asked for or a custom one named, under a qualifier or  *)
(* the default one.                                                        *)
(***************************************************************************)
BoundaryOptions ==
  {[NoOptions EXCEPT !.parameters =
      [NoParams EXCEPT !.examplePermissionsBoundary = example,
                       !.customPermissionsBoundary = custom,
                       !.qualifier = qualifier]] :
     example \in {None, Some(TRUE)},
     custom \in {None, Some(<< "boundary-a" >>)},
     qualifier \in {None, Some(<< "abcdef" >>)}}

NextBoundary == CallBootstrapEnvironment(KeySources, BoundaryOptions)

SpecBoundary == Init /\ [][NextBoundary]_vars

(***************************************************************************)
(* Bootstrap invocations at once on one environment, none of them forced:  *)
(* each looks up the stack (BootstrapStack.lookup) and later updates it     *)
(* (BootstrapStack.update) against what it looked up; the steps of          *)
(* different invocations interleave.                                       *)
(***************************************************************************)
\* BootstrapStack.lookup: the invocation keeps the stack as it is now.
InvokeLookup(p, templates) ==
  /\ invocations[p].pc = "idle"
  /\ \E template \in templates :
       invocations' = [invocations EXCEPT ![p] =
                         [pc |-> "looked up", template |-> template, current |-> deployed]]
  /\ UNCHANGED << deployed, iamPolicies, envVars, accountVars, evalVars, last >>

\* current.update(template, {}, options) without force: the gate is checked
\* against the stack looked up, the deployment is made on the stack as it
\* is by now.
InvokeUpdate(p) ==
  /\ invocations[p].pc = "looked up"
  /\ \E outcome \in DeployOutcomes :
       \E r \in {update(invocations[p].current, deployed, invocations[p].template,
                        NoParameters, NoOptions, outcome)} :
         /\ deployed' = r.cloud
         /\ last' = [op |-> "update", source |-> [source |-> "custom",
                                                  template |-> invocations[p].template],
                     options |-> NoOptions, current |-> invocations[p].current,
                     events |-> r.events, result |-> r.result]
  /\ invocations' = [invocations EXCEPT ![p] = NotInvoked]
  /\ UNCHANGED << iamPolicies, envVars, accountVars, evalVars >>

NextBootRace ==
  \E p \in Invokers :
    \/ InvokeLookup(p, CustomTemplates)
    \/ InvokeUpdate(p)

SpecBootRace == Init /\ [][NextBootRace]_vars

(***************************************************************************)
(* The account identity cache, one call after the other, on a file system  *)
(* that may deny access to the cache and on which others may spoil the     *)
(* file.                                                                   *)
(***************************************************************************)
\* What a call leaves in `last` of the call before it.
Summary(call) ==
  IF call.op \in {"put", "fetch"}
    THEN [op |-> call.op, fingerprint |-> call.fingerprint, account |-> call.account]
    ELSE [op |-> call.op]

\* cache.get(fingerprint), on this cache or on another one over the same file
CallGet ==
  \E fingerprint \in Fingerprints :
    \E r \in {get(cacheFile, fingerprint)} :
      /\ last' = [op |-> "get", fingerprint |-> fingerprint, previous |-> Summary(last),
                  during |-> writer.pc, events |-> r.events, result |-> r.result]
      /\ UNCHANGED << envVars, bootVars, evalVars, cacheFile, writer >>

\* cache.put(fingerprint, account)
CallPut ==
  /\ writer = NoWriter
  /\ \E fingerprint \in Fingerprints, account \in Accounts :
       \E r \in {put(cacheFile, fingerprint, account)} :
         /\ cacheFile' = r.fs
         /\ last' = [op |-> "put", fingerprint |-> fingerprint, account |-> account,
                     events |-> r.events, result |-> r.result]
         /\ UNCHANGED << envVars, bootVars, evalVars, writer >>

\* cache.fetch(fingerprint, resolver); `account` of the call is the account
\* it returned.
CallFetch ==
  /\ writer = NoWriter
  /\ \E fingerprint \in Fingerprints :
       \E resolved \in AnswersFor(~IsSome(get(cacheFile, fingerprint).result.value), Accounts) :
         \E r \in {fetch(cacheFile, fingerprint, resolved)} :
           /\ cacheFile' = r.fs
           /\ last' = [op |-> "fetch", fingerprint |-> fingerprint, account |-> r.result.value,
                       events |-> r.events, result |-> r.result]
           /\ UNCHANGED << envVars, bootVars, evalVars, writer >>

\* The file system denies, or grants again, access to the cache.
ChangeAccess ==
  /\ cacheFile' = [cacheFile EXCEPT !.access = IF @ = "ok" THEN "denied" ELSE "ok"]
  /\ last' = [op |-> "change access", events |-> << >>]
  /\ UNCHANGED << envVars, bootVars, evalVars, writer >>

\* Something else leaves a text that is no JSON in the cache file.
SpoilFile ==
  \E text \in NonJsonTexts :
    /\ cacheFile' = [cacheFile EXCEPT !.content = Some(text)]
    /\ last' = [op |-> "spoil file", events |-> << >>]
    /\ UNCHANGED << envVars, bootVars, evalVars, writer >>

NextAccount ==
  \/ CallGet
  \/ CallPut
  \/ CallFetch
  \/ ChangeAccess
  \/ SpoilFile

SpecAccount == Init /\ [][NextAccount]_vars

(***************************************************************************)
(* A put in its steps, with gets of other flows between them.              *)
(***************************************************************************)
\* put, up to the map it is going to write; `before` keeps the text the file
\* held then.
PutLoad ==
  /\ writer = NoWriter
  /\ \E fingerprint \in Fingerprints, account \in Accounts :
       \E loaded \in {loadMap(cacheFile)} :
         /\ loaded.ok
         /\ writer' = [pc |-> "loaded", fingerprint |-> fingerprint, account |-> account,
                       before |-> cacheFile.content,
                       map |-> MapToSave(loaded.value, fingerprint, account)]
  /\ UNCHANGED << envVars, bootVars, evalVars, cacheFile, last >>

\* saveMap, first step
PutWriteTemp ==
  /\ writer.pc = "loaded"
  /\ cacheFile' = writeTemp(cacheFile, Stringify(writer.map))
  /\ writer' = [writer EXCEPT !.pc = "written"]
  /\ UNCHANGED << envVars, bootVars, evalVars, last >>

\* saveMap, second step, and the end of put
PutRename ==
  /\ writer.pc = "written"
  /\ cacheFile' = rename(cacheFile)
  /\ writer' = NoWriter
  /\ last' = [op |-> "put", fingerprint |-> writer.fingerprint, account |-> writer.account,
              events |-> << [ev |-> "fs.readJson", read |-> writer.before],
                            WriteEvent(cacheFile) >>,
              result |-> Return(Void)]
  /\ UNCHANGED << envVars, bootVars, evalVars >>

NextAccountRace ==
  \/ PutLoad
  \/ PutWriteTemp
  \/ PutRename
  \/ CallGet

SpecAccountRace == Init /\ [][NextAccountRace]_vars

(***************************************************************************)
(* One evaluator, any sequence of Fn::ImportValue evaluations.  What the   *)
(* account lists is settled when it is first asked.                        *)
(***************************************************************************)
\* evaluator.evaluateCfnExpression({'Fn::ImportValue': name})
CallImportValue ==
  /\ cfn.listCalls < MaxListCalls
  /\ \E name \in ImportNames :
       \E pages \in (IF IsSome(cfn.pages) THEN {Get(cfn.pages)} ELSE PageLists) :
         \E r \in {ImportValue(evaluator, pages, name)} :
           /\ evaluator' = r.evaluator
           /\ cfn' = [pages |-> Some(pages),
                      listCalls |-> cfn.listCalls + CountEvents(r.events, "cfn.listExports")]
           /\ last' = [op |-> "ImportValue", name |-> name,
                       events |-> r.events, result |-> r.result]
           /\ UNCHANGED << envVars, bootVars, accountVars >>

NextEvaluate == CallImportValue

SpecEvaluate == Init /\ [][NextEvaluate]_vars

(***************************************************************************)
(* One evaluator, any sequence of evaluations of expressions.              *)
(***************************************************************************)
Delimiters == {<< ":" >>, << "|" >>}
ElementTexts == {<< "a" >>, << "b" >>, << "a", "|", "b" >>}
LiteralLists ==
  {List(<< >>)}
    \cup {List(<< Text(x) >>) : x \in ElementTexts}
    \cup {List(<< Text(x), Text(y) >>) : x \in ElementTexts, y \in ElementTexts}
SplitTexts ==
  {<< >>, << "a" >>, << "a", "|", "b" >>, << "a", "|", "b", "|", "c" >>,
   << "a", ":", "b", "|", "c" >>, << "|", "a" >>}

SplitExpressions ==
  {Single("Fn::Split", List(<< Text(d), Text(t) >>)) : d \in Delimiters, t \in SplitTexts}
SplitOfThree == Single("Fn::Split", List(<< Text(<< "|" >>), Text(<< "a", "|", "b", "|", "c" >>) >>))
JoinExpressions ==
  {Single("Fn::Join", List(<< Text(d), l >>)) :
     d \in Delimiters, l \in LiteralLists \cup {SplitOfThree}}
JoinOfTwo == Single("Fn::Join", List(<< Text(<< ":" >>), List(<< Text(<< "a" >>), Text(<< "b" >>) >>) >>))

Fruits == List(<< Text(<< "apples" >>), Text(<< "grapes" >>), Text(<< "oranges" >>) >>)
SelectIndexes ==
  {Text(<< "0" >>), Text(<< "1" >>), Text(<< "3" >>), Numeral(2), Text(<< "x" >>)}
SelectExpressions ==
  {Single("Fn::Select", List(<< i, l >>)) :
     i \in SelectIndexes,
     l \in {Fruits, List(<< >>), SplitOfThree, List(<< JoinOfTwo, Numeral(1) >>)}}

\* The pieces of a template of Fn::Sub, texts and ${names}, and its text.
Literal(text) == [piece |-> "text", text |-> text]
Token(name) == [piece |-> "token", name |-> name]
RECURSIVE Render(_)
Render(pieces) ==
  IF Len(pieces) = 0 THEN << >>
  ELSE (IF Head(pieces).piece = "token"
          THEN << "$", "{", Head(pieces).name, "}" >>
          ELSE Head(pieces).text)
       \o Render(Tail(pieces))
TemplatePieces ==
  {<< >>,
   << Literal(<< "a" >>) >>,
   << Token("Foo") >>,
   << Token("Baz") >>,
   << Token("Foo"), Token("Foo") >>,
   << Literal(<< "Foo=" >>), Token("Foo"), Literal(<< " Bar=" >>), Token("Bar") >>}
Substitutions ==
  {Mapping(<< >>),
   Mapping(<< Pair("Foo", Text(<< "testing" >>)), Pair("Bar", Numeral(1)) >>),
   Mapping(<< Pair("Foo", Numeral(12)) >>),
   Mapping(<< Pair("Foo", JoinOfTwo) >>)}
SubExpressions ==
  {Single("Fn::Sub", List(<< Text(Render(t)), m >>)) : t \in TemplatePieces, m \in Substitutions}

SelectOutOfRange == Single("Fn::Select", List(<< Text(<< "3" >>), Fruits >>))
\* Mappings that are no call of a recognized function.
OtherMappings ==
  {Mapping(<< >>),
   Single("Ref", Text(<< "a" >>)),
   Single("Fn::GetAtt", List(<< Text(<< "a" >>), Text(<< "b" >>) >>)),
   Single("Fn::Base64", JoinOfTwo),
   Single("Fn::Base64", Single("Fn::GetAtt", List(<< SplitOfThree, JoinOfTwo >>))),
   Single("Fn::Base64", SelectOutOfRange),
   Mapping(<< Pair("Fn::Join", List(<< Text(<< ":" >>), List(<< >>) >>)),
              Pair("Fn::Split", JoinOfTwo) >>)}

Import(name) == Single("Fn::ImportValue", Text(<< name >>))
ImportExpressions ==
  {Import("test-name-1"), Import("blah"),
   Single("Fn::ImportValue", Single("Fn::Join", List(<< Text(<< ":" >>), List(<< Text(<< "test-name-2" >>) >>) >>))),
   Single("Fn::Join", List(<< Text(<< ":" >>), List(<< Import("test-name-1"), Import("test-name-3") >>) >>)),
   Single("Fn::Base64", Import("test-name-2"))}

\* The listings the account may hold while expressions are evaluated.
ExpressionPages ==
  {<< {} >>, << {"test-name-1"}, {"test-name-2", "test-name-3"} >>}

Expressions ==
  {Text(<< "a" >>), Numeral(1), List(<< JoinOfTwo, Numeral(1) >>)}
    \cup JoinExpressions \cup SplitExpressions \cup SelectExpressions \cup SubExpressions
    \cup OtherMappings \cup ImportExpressions

\* evaluator.evaluateCfnExpression(expression)
CallEvaluateCfnExpression ==
  /\ cfn.listCalls < MaxListCalls
  /\ \E expression \in Expressions :
       \E pages \in (IF IsSome(cfn.pages) THEN {Get(cfn.pages)}
                     ELSE AnswersFor(expression \in ImportExpressions, ExpressionPages)) :
         \E r \in {evaluateCfnExpression(evaluator, pages, expression)} :
           /\ evaluator' = r.evaluator
           /\ cfn' = IF r.events = << >> THEN cfn
                     ELSE [pages |-> Some(pages),
                           listCalls |-> cfn.listCalls + CountEvents(r.events, "cfn.listExports")]
           /\ last' = [op |-> "evaluateCfnExpression", expression |-> expression,
                       events |-> r.events, result |-> r.result]
           /\ UNCHANGED << envVars, bootVars, accountVars >>

NextExpression == CallEvaluateCfnExpression

SpecExpression == Init /\ [][NextExpression]_vars

(***************************************************************************)
(* PROPERTIES                                                              *)
(***************************************************************************)
\* The last call is a validateVersion call that had a version to expect and
\* a parameter to read.
ValidatedByParameter ==
  /\ last.op = "validateVersion"
  /\ IsSome(last.expected)
  /\ IsSome(last.param)

\* What the parameter read of that call yielded: the version (stored by an
\* earlier read, or parsed from the answer of ssm.getParameter), or None
\* when the read failed.
ReadVersion ==
  LET gets == EventsOf(last.events, "ssm.getParameter") IN
  IF Len(gets) = 0 THEN Some(registry[last.env].ssmParameters[Get(last.param)])
  ELSE IF gets[1].answer.ok THEN ParseInt(gets[1].answer.value)
  ELSE None

\* The parameter read of that call failed with access denied.
ReadDenied ==
  LET gets == EventsOf(last.events, "ssm.getParameter") IN
  /\ Len(gets) = 1
  /\ ~gets[1].answer.ok
  /\ gets[1].answer.name = "AccessDeniedException"

\* The bootstrap stack the fallback of that call consulted.
FallbackStack == Get(registry[last.env].toolkitInfo)

VersionTooLow(expected, found) ==
  Throw(ToolkitError([type |-> "version too low", expected |-> expected, found |-> found]))

TerminalError(expected, param) ==
  Throw(ToolkitError([type |-> "error during confirmation via SSM parameter",
                      expected |-> expected, param |-> param,
                      cause |-> SdkError("AccessDeniedException")]))

\* C1: over any sequence of lookupToolkit calls made through one registry,
\* ToolkitInfo.lookup is invoked at most once per environment, and a call
\* for an environment whose result is stored makes no remote call and
\* returns the stored result.
C1_LookupAtMostOncePerEnvironment ==
  /\ [](\A e \in Envs : lookupCalls[e] <= 1)
  /\ [][\A e \in Envs :
          (/\ e \in DOMAIN registry
           /\ IsSome(registry[e].toolkitInfo)
           /\ last'.op = "lookupToolkit"
           /\ last'.env = e)
            => /\ last'.events = << >>
               /\ last'.result = Return(Get(registry[e].toolkitInfo))
               /\ lookupCalls' = lookupCalls
               /\ registry' = registry]_vars

\* A second lookupToolkit call for an environment was answered from the store.
C1_Witness ==
  /\ last.op = "lookupToolkit"
  /\ last.events = << >>
  /\ lookupCalls[last.env] = 1
  /\ last.result = Return(Get(registry[last.env].toolkitInfo))

\* C8: when the parameter read yields version V, validateVersion(E, P)
\* succeeds exactly when V >= E; when V < E it raises the error that names E
\* and V; and the stack lookup is not consulted (no lookup, no warning).
C8_ParameterVersionDecides ==
  (ValidatedByParameter /\ IsSome(ReadVersion)) =>
    LET E == Get(last.expected)
        V == Get(ReadVersion)
    IN /\ last.result.ok <=> V >= E
       /\ V < E => last.result = VersionTooLow(E, V)
       /\ CountEvents(last.events, "ToolkitInfo.lookup") = 0
       /\ CountEvents(last.events, "warn") = 0

\* A parameter read that yielded a version below the expected one.
C8_Witness ==
  /\ ValidatedByParameter
  /\ IsSome(ReadVersion)
  /\ Get(ReadVersion) < Get(last.expected)
  /\ ~last.result.ok

\* C9: when the parameter read fails with access denied, the fallback is
\* used exactly when the bootstrap stack is found and its version is below
\* the version introducing ssm:GetParameter: then one warning is emitted,
\* before the version of the stack is recorded and compared as a parameter
\* version would be; otherwise the call ends in the terminal error that
\* wraps the cause, without a warning.
C9_FallbackOnAccessDenied ==
  (ValidatedByParameter /\ ReadDenied) =>
    LET E == Get(last.expected)
        warns == EventsOf(last.events, "warn")
    IN IF FallbackStack.found
            /\ FallbackStack.version < BOOTSTRAP_TEMPLATE_VERSION_INTRODUCING_GETPARAMETER
         THEN /\ Len(warns) = 1
              /\ warns[1].message.type = "could not read SSM parameter"
              /\ last.result.ok <=> FallbackStack.version >= E
              /\ ~last.result.ok => last.result = VersionTooLow(E, FallbackStack.version)
              /\ \A i, j \in 1..Len(last.events) :
                   (/\ last.events[i].ev = "warn"
                    /\ last.events[j].ev = "notices.addBootstrappedEnvironment") => i < j
         ELSE /\ Len(warns) = 0
              /\ last.result = TerminalError(E, Get(last.param))

\* A denied parameter read that the fallback turned into a success.
C9_Witness ==
  /\ ValidatedByParameter
  /\ ReadDenied
  /\ FallbackStack.found
  /\ FallbackStack.version < BOOTSTRAP_TEMPLATE_VERSION_INTRODUCING_GETPARAMETER
  /\ last.result.ok
  /\ CountEvents(last.events, "warn") = 1

\* validateVersion(5, "param") with a parameter read that was denied.
ExampleOfFallback ==
  /\ ValidatedByParameter
  /\ last.expected = Some(5)
  /\ ReadDenied
  /\ FallbackStack.found

\* C10 as stated: validateVersion(5, "param") with a denied parameter read
\* succeeds with a warning when the fallback reports version 3, and raises
\* the terminal error when it reports version 10.
C10_AsStated ==
  ExampleOfFallback =>
    /\ FallbackStack.version = 3 =>
         /\ last.result.ok
         /\ CountEvents(last.events, "warn") = 1
    /\ FallbackStack.version = 10 =>
         last.result = TerminalError(5, Get(last.param))

\* C10 amended: validateVersion(5, "param") with a denied parameter read
\* emits the warning and then fails with the version error naming 5 and 3
\* when the fallback reports version 3, and raises the terminal error,
\* without a warning, when it reports version 10.
C10_FallbackStillCompares ==
  ExampleOfFallback =>
    /\ FallbackStack.version = 3 =>
         /\ last.result = VersionTooLow(5, 3)
         /\ CountEvents(last.events, "warn") = 1
    /\ FallbackStack.version = 10 =>
         /\ last.result = TerminalError(5, Get(last.param))
         /\ CountEvents(last.events, "warn") = 0

\* The example of C10 with fallback version 3.
C10_Witness ==
  /\ ExampleOfFallback
  /\ FallbackStack.version = 3
  /\ CountEvents(last.events, "warn") = 1

\* The cache of environment e in a registry (an empty one when the registry
\* has none yet).
CacheOf(reg, e) == IF e \in DOMAIN reg THEN reg[e] ELSE emptyCache

NotANumber(param, value) ==
  Throw(ToolkitError([type |-> "not a number", param |-> param, value |-> value]))
ParameterNotFound(param) ==
  Throw(ToolkitError([type |-> "parameter not found", param |-> param]))

\* C11: when the parameter read of validateVersion fails with an error other
\* than access denied (another SDK error, a missing parameter, a value that
\* is no number), the call ends with that very error, makes no stack lookup,
\* emits no warning and no notice, and leaves the cache of the environment
\* as it was.
C11_OtherErrorsPropagate ==
  [][(/\ last'.op = "validateVersion"
      /\ IsSome(last'.expected)
      /\ IsSome(last'.param)
      /\ Len(EventsOf(last'.events, "ssm.getParameter")) = 1
      /\ LET ans == EventsOf(last'.events, "ssm.getParameter")[1].answer IN
         IF ans.ok THEN ~IsSome(ParseInt(ans.value))
         ELSE ans.name # "AccessDeniedException")
       => LET ans == EventsOf(last'.events, "ssm.getParameter")[1].answer
              P == Get(last'.param)
          IN /\ last'.result =
                  IF ans.ok THEN NotANumber(P, ans.value)
                  ELSE IF ans.name = "ParameterNotFound" THEN ParameterNotFound(P)
                  ELSE Throw(SdkError(ans.name))
             /\ Len(last'.events) = 1
             /\ lookupCalls' = lookupCalls
             /\ registry'[last'.env] = CacheOf(registry, last'.env)]_vars

\* A validateVersion call whose parameter read was throttled.
C11_Witness ==
  /\ ValidatedByParameter
  /\ Len(EventsOf(last.events, "ssm.getParameter")) = 1
  /\ last.result = Throw(SdkError("ThrottlingException"))

\* The version the last validateVersion call determined, if any: the one
\* read from the parameter, the one of the stack the fallback consulted, or
\* the one of the stack looked up when no parameter name was given.
DeterminedVersion ==
  IF IsSome(last.param)
    THEN IF IsSome(ReadVersion) THEN ReadVersion
         ELSE IF /\ ReadDenied
                 /\ FallbackStack.found
                 /\ FallbackStack.version < BOOTSTRAP_TEMPLATE_VERSION_INTRODUCING_GETPARAMETER
           THEN Some(FallbackStack.version)
         ELSE None
  ELSE IF FallbackStack.found THEN Some(FallbackStack.version)
  ELSE None

\* C12: a validateVersion call that determines a version reports exactly the
\* pair of its environment and that version to the notices registry when
\* there is one, and nothing when there is none, with the same verdict of
\* the comparison either way; a call that determines no version reports
\* nothing; a call without expected version reports nothing, makes no remote
\* call and succeeds.
C12_DeterminedVersionIsReported ==
  last.op = "validateVersion" =>
    IF ~IsSome(last.expected)
      THEN /\ last.events = << >>
           /\ last.result = Return(Void)
      ELSE LET reported == EventsOf(last.events, "notices.addBootstrappedEnvironment") IN
           /\ reported = IF IsSome(DeterminedVersion) /\ last.notices
                           THEN << NoticeEvent(last.env, Get(DeterminedVersion)) >>
                           ELSE << >>
           /\ IsSome(DeterminedVersion) =>
                (last.result.ok <=> Get(DeterminedVersion) >= Get(last.expected))

\* A call that reported a version that then proved too low.
C12_Witness ==
  /\ last.op = "validateVersion"
  /\ IsSome(last.expected)
  /\ last.notices
  /\ IsSome(DeterminedVersion)
  /\ Get(DeterminedVersion) < Get(last.expected)
  /\ CountEvents(last.events, "notices.addBootstrappedEnvironment") = 1

\* C13: once versionFromSsmParameter(P) has succeeded for environment E, a
\* later call for (E, P) through the registry makes no remote call, returns
\* the stored integer and leaves the registry as it is; a call for a pair
\* that has not succeeded yet (another parameter name, another environment)
\* makes its own ssm.getParameter call for its parameter.
C13_ParameterReadOncePerPair ==
  [][\A e \in Envs, p \in ParamNames :
       (/\ last'.op = "versionFromSsmParameter"
        /\ last'.env = e
        /\ last'.param = p)
         => IF p \in DOMAIN CacheOf(registry, e).ssmParameters
              THEN /\ last'.events = << >>
                   /\ last'.result = Return(registry[e].ssmParameters[p])
                   /\ registry' = registry
              ELSE /\ Len(last'.events) = 1
                   /\ last'.events[1].ev = "ssm.getParameter"
                   /\ last'.events[1].param = p]_vars

\* A read answered from the store while the other parameter of the same
\* environment has not been read.
C13_Witness ==
  /\ last.op = "versionFromSsmParameter"
  /\ last.events = << >>
  /\ last.result = Return(registry[last.env].ssmParameters[last.param])
  /\ DOMAIN registry[last.env].ssmParameters = {last.param}

\* C14: a failed remote read makes versionFromSsmParameter fail in one of
\* three ways that can be told apart: the "parameter not found" error naming
\* the parameter for ParameterNotFound, the SDK's error with its
\* AccessDeniedException name for access denied, and the SDK's error as it
\* is for anything else; and validateVersion takes no fallback (no stack
\* lookup, no warning) on a parameter that is not found.
C14_ThreeFailureKinds ==
  LET gets == EventsOf(last.events, "ssm.getParameter") IN
  (/\ last.op \in {"versionFromSsmParameter", "validateVersion"}
   /\ Len(gets) = 1
   /\ ~gets[1].answer.ok)
    => LET name == gets[1].answer.name IN
       /\ last.op = "versionFromSsmParameter" =>
            /\ last.result =
                 IF name = "ParameterNotFound" THEN ParameterNotFound(last.param)
                 ELSE Throw(SdkError(name))
            /\ last.result.error.name =
                 IF name = "ParameterNotFound" THEN "ToolkitError" ELSE name
       /\ (last.op = "validateVersion" /\ name = "ParameterNotFound") =>
            /\ last.result = ParameterNotFound(Get(last.param))
            /\ CountEvents(last.events, "ToolkitInfo.lookup") = 0
            /\ CountEvents(last.events, "warn") = 0

\* A versionFromSsmParameter call for a parameter that does not exist.
C14_Witness ==
  /\ last.op = "versionFromSsmParameter"
  /\ Len(last.events) = 1
  /\ ~last.events[1].answer.ok
  /\ last.events[1].answer.name = "ParameterNotFound"
  /\ last.result = ParameterNotFound(last.param)

\* The parameters the cache of environment e holds a version for.
StoredParameters(reg, e) == DOMAIN CacheOf(reg, e).ssmParameters

\* The last call was a versionFromSsmParameter call that failed.
ReadFailed == last.op = "versionFromSsmParameter" /\ ~last.result.ok

\* C36: a versionFromSsmParameter call that fails (parameter not found,
\* access denied, a value that is no number, any other error) leaves the
\* cache of its environment as it was and stores nothing under its parameter
\* name; the next call for the same environment and parameter makes a remote
\* read again; and a value enters the cache only in a call whose remote read
\* answered a value that parses as that integer, and is never replaced.
C36_FailedReadStoresNothing ==
  [][/\ (last'.op = "versionFromSsmParameter" /\ ~last'.result.ok) =>
          /\ CacheOf(registry', last'.env) = CacheOf(registry, last'.env)
          /\ last'.param \notin StoredParameters(registry', last'.env)
          /\ \A e \in Envs : StoredParameters(registry', e) = StoredParameters(registry, e)
     /\ (/\ ReadFailed
         /\ last'.op = "versionFromSsmParameter"
         /\ last'.env = last.env
         /\ last'.param = last.param) =>
          /\ Len(last'.events) = 1
          /\ last'.events[1].ev = "ssm.getParameter"
          /\ last'.events[1].param = last.param
     /\ \A e \in Envs, p \in ParamNames :
          /\ p \in StoredParameters(registry, e) =>
               /\ p \in StoredParameters(registry', e)
               /\ registry'[e].ssmParameters[p] = registry[e].ssmParameters[p]
          /\ (p \in StoredParameters(registry', e) /\ p \notin StoredParameters(registry, e)) =>
               LET gets == EventsOf(last'.events, "ssm.getParameter") IN
               /\ last'.env = e
               /\ Len(gets) = 1
               /\ gets[1].param = p
               /\ gets[1].answer.ok
               /\ ParseInt(gets[1].answer.value) = Some(registry'[e].ssmParameters[p])
               /\ last'.op = "versionFromSsmParameter" =>
                    last'.result = Return(registry'[e].ssmParameters[p])]_vars

\* A read that failed on a value that is no number, in an environment whose
\* cache holds the version of the other parameter and nothing else.
C36_Witness ==
  /\ ReadFailed
  /\ Len(last.events) = 1
  /\ last.events[1].answer.ok
  /\ ~IsSome(ParseInt(last.events[1].answer.value))
  /\ StoredParameters(registry, last.env) = ParamNames \ {last.param}

(***************************************************************************)
(* Properties of bootstrap invocations                                     *)
(***************************************************************************)
Bootstrapped == last.op = "bootstrapEnvironment"

\* The last invocation reached BootstrapStack.update.
UpdateReached == Bootstrapped /\ CountEvents(last.events, "safety gate") = 1

\* The variant and version of the template the last invocation used.
NewVariant == bootstrapVariantFromTemplate(loadTemplate(last.source))
NewVersion == bootstrapVersionFromTemplate(loadTemplate(last.source))

\* The response of an update that the safety gate aborted.
AbortResponse ==
  Return([type |-> "did-deploy-stack", noOp |-> TRUE, outputs |-> << >>,
          stackArn |-> last.current.stackId])

\* The positions of the events of given kinds.
Positions(events, names) == {i \in 1..Len(events) : events[i].ev \in names}

\* C2: a completed bootstrap invocation without force, on an environment
\* that has a bootstrap stack, leaves a stack whose version is not lower
\* and whose variant is the same; so over any sequence of such invocations
\* the version never decreases and the variant never changes.
C2_NoDowngradeNoVariantChange ==
  [][(/\ last'.op = "bootstrapEnvironment"
      /\ ~last'.options.forceDeployment
      /\ deployed.found)
       => /\ deployed'.found
          /\ deployed'.version >= deployed.version
          /\ deployed'.variant = deployed.variant]_vars

\* An invocation without force that raised the version of the stack.
C2_Witness ==
  /\ Bootstrapped
  /\ ~last.options.forceDeployment
  /\ last.current.found
  /\ deployed.version > last.current.version
  /\ deployed.variant = last.current.variant

\* C3: an update without force of an existing stack whose variant differs
\* from the template's returns the no-op response with empty outputs and
\* the existing stack's id, warns naming both variants, and does not invoke
\* deployStack.
C3_VariantMismatchAborts ==
  (/\ UpdateReached
   /\ last.current.found
   /\ ~last.options.forceDeployment
   /\ last.current.variant # NewVariant)
    => /\ last.result = AbortResponse
       /\ \E i \in 1..Len(last.events) :
            last.events[i] = WarnEvent([type |-> "not overwriting variant",
                                        current |-> last.current.variant,
                                        new |-> NewVariant])
       /\ CountEvents(last.events, "deployStack") = 0
       /\ deployed = last.current

\* An update that the variant check aborted.
C3_Witness ==
  /\ UpdateReached
  /\ last.current.found
  /\ ~last.options.forceDeployment
  /\ last.current.variant # NewVariant
  /\ last.result = AbortResponse

\* C4: an update of an existing stack of the same variant with a template of
\* a strictly lower version is, without force, a no-op that warns and does
\* not invoke deployStack; with force neither check is made and deployStack
\* is invoked.
C4_DowngradeAbortsUnlessForced ==
  (/\ UpdateReached
   /\ last.current.found
   /\ last.current.variant = NewVariant
   /\ NewVersion < last.current.version)
    => IF ~last.options.forceDeployment
         THEN /\ last.result = AbortResponse
              /\ \E i \in 1..Len(last.events) :
                   last.events[i] = WarnEvent([type |-> "not downgrading",
                                               current |-> last.current.version,
                                               new |-> NewVersion])
              /\ CountEvents(last.events, "deployStack") = 0
              /\ deployed = last.current
         ELSE /\ CountEvents(last.events, "deployStack") = 1
              /\ \A i \in 1..Len(last.events) :
                   last.events[i].ev = "warn" =>
                     last.events[i].message.type \notin {"not overwriting variant",
                                                         "not downgrading"}

\* An update that the version check aborted.
C4_Witness ==
  /\ UpdateReached
  /\ last.current.found
  /\ ~last.options.forceDeployment
  /\ last.current.variant = NewVariant
  /\ NewVersion < last.current.version
  /\ last.result = AbortResponse

\* The warnings of the safety gate in the last invocation, in order.
GateWarningTypes ==
  {"not overwriting variant", "not downgrading", "did you set the feature flag"}
GateWarnings ==
  SelectSeq(last.events, LAMBDA x : x.ev = "warn" /\ x.message.type \in GateWarningTypes)

\* C33: in an update without force of an existing stack, a variant that
\* differs yields the variant warning alone, also when the version is lower;
\* with the same variant, a lower version yields one warning that names the
\* current and the new version, followed by the feature flag warning
\* exactly when the new version is 0; and otherwise the gate warns of
\* nothing.
C33_VariantBeforeVersion ==
  (UpdateReached /\ last.current.found /\ ~last.options.forceDeployment) =>
    GateWarnings =
      IF last.current.variant # NewVariant
        THEN << WarnEvent([type |-> "not overwriting variant",
                           current |-> last.current.variant, new |-> NewVariant]) >>
      ELSE IF NewVersion < last.current.version
        THEN << WarnEvent([type |-> "not downgrading",
                           current |-> last.current.version, new |-> NewVersion]) >>
               \o (IF NewVersion = 0
                     THEN << WarnEvent([type |-> "did you set the feature flag"]) >>
                     ELSE << >>)
      ELSE << >>

\* An update without force whose template differs in variant and is lower
\* in version: the variant warning is the only one.
C33_Witness ==
  /\ UpdateReached
  /\ last.current.found
  /\ ~last.options.forceDeployment
  /\ last.current.variant # NewVariant
  /\ NewVersion < last.current.version
  /\ Len(GateWarnings) = 1
  /\ GateWarnings[1].message.type = "not overwriting variant"
  /\ last.result = AbortResponse

\* C34: under any interleaving of bootstrap invocations without force on
\* one environment, each checking the gate against the stack it looked up,
\* no step lowers the version of the deployed stack or changes its variant.
C34_NoDowngradeUnderConcurrency ==
  [][deployed.found =>
       /\ deployed'.found
       /\ deployed'.version >= deployed.version
       /\ deployed'.variant = deployed.variant]_vars

\* C35: an update calls deployStack exactly once, and its gate warns of
\* nothing, whenever it found no stack, or is forced, or the variant of the
\* template is the one of the stack and its version is not lower (the same
\* version is no downgrade).
C35_GateLetsLegitimateUpdatesPass ==
  (/\ UpdateReached
   /\ \/ ~last.current.found
      \/ last.options.forceDeployment
      \/ last.current.variant = NewVariant /\ NewVersion >= last.current.version)
    => /\ CountEvents(last.events, "deployStack") = 1
       /\ \A i \in 1..Len(last.events) :
            last.events[i].ev = "warn" =>
              last.events[i].message.type \notin
                {"not overwriting variant", "not downgrading", "did you set the feature flag"}
       /\ last.result # AbortResponse

\* An update without force of a stack by a template of the same variant and
\* the same version, which deployStack carried out.
C35_Witness ==
  /\ UpdateReached
  /\ last.current.found
  /\ ~last.options.forceDeployment
  /\ last.current.variant = NewVariant
  /\ NewVersion = last.current.version
  /\ CountEvents(last.events, "deployStack") = 1
  /\ last.result.ok
  /\ ~last.result.value.noOp

\* C5 as stated: in one invocation the safety gate comes before every IAM
\* call about the example permissions boundary, both come before
\* deployStack, and an invocation that the gate aborted has issued no
\* iam.createPolicy.
C5_GateBeforeBoundaryPolicy ==
  Bootstrapped =>
    LET gate == Positions(last.events, {"safety gate"})
        boundary == Positions(last.events, {"iam.getPolicy", "iam.createPolicy"})
        deploy == Positions(last.events, {"deployStack"})
    IN /\ \A g \in gate, b \in boundary : g < b
       /\ \A i \in gate \cup boundary, d \in deploy : i < d
       /\ last.result = AbortResponse => CountEvents(last.events, "iam.createPolicy") = 0

\* The invocation takes the modern flavor, or else the legacy one.
ModernFlavor ==
  \/ last.source.source = "default"
  \/ last.source.source = "custom" /\ bootstrapVersionFromTemplate(last.source.template) # 0

ConfigurationErrors ==
  {"cannot pass kms key id and customer key together",
   "accounts cannot be both trusted and untrusted",
   "pass execution policies when using trust",
   "permissions boundary name does not match the IAM conventions"}

\* The last invocation ended in a configuration error.
ConfigurationError ==
  /\ ~last.result.ok
  /\ last.result.error.name = "ToolkitError"
  /\ last.result.error.message.type \in ConfigurationErrors

\* The names of the remote calls of the last invocation, in order.
RemoteCalls == [i \in 1..Len(RemoteEvents(last.events)) |-> RemoteEvents(last.events)[i].ev]

\* The arguments of the last invocation name both a key and the creation of
\* one, or an account as both trusted and untrusted.
KeyConflict ==
  /\ IsSome(last.options.parameters.createCustomerMasterKey)
  /\ IsSome(last.options.parameters.kmsKeyId)
  /\ Get(last.options.parameters.kmsKeyId) # << >>
TrustConflict ==
  LET params == last.options.parameters
      trusted == OrEmpty(params.trustedAccounts) \o OrEmpty(params.trustedAccountsForLookup)
      untrusted == OrEmpty(params.untrustedAccounts)
  IN \E i \in 1..Len(trusted), j \in 1..Len(untrusted) : trusted[i] = untrusted[j]

\* C6 as stated: a modern invocation that ends in a configuration error has
\* made no remote call at all.
C6_AsStated ==
  (Bootstrapped /\ ModernFlavor /\ ConfigurationError) => RemoteCalls = << >>

\* C6 amended: a modern invocation whose arguments conflict ends in a
\* configuration error; and one that ends in a configuration error has
\* looked up the bootstrap stack and queried the account first, has at most
\* obtained the SDK of the environment after that, and has made no IAM
\* policy call and no deployStack call, leaving the stack as it was.
C6_ErrorAfterLookupBeforeWrites ==
  (Bootstrapped /\ ModernFlavor) =>
    /\ (KeyConflict \/ TrustConflict) => ConfigurationError
    /\ ConfigurationError =>
         /\ RemoteCalls \in
              {<< "sdkProvider.resolveEnvironment", "sdkProvider.forEnvironment",
                  "ToolkitInfo.lookup", "sdk.currentAccount" >>,
               << "sdkProvider.resolveEnvironment", "sdkProvider.forEnvironment",
                  "ToolkitInfo.lookup", "sdk.currentAccount",
                  "sdkProvider.forEnvironment" >>}
         /\ deployed = last.current

\* A modern invocation that named an account as trusted and untrusted.
C6_Witness ==
  /\ Bootstrapped
  /\ ModernFlavor
  /\ TrustConflict
  /\ ConfigurationError
  /\ last.result.error.message.type = "accounts cannot be both trusted and untrusted"

\* The arguments of the last invocation hold one that only the modern
\* flavor takes.
ModernOnlyArgument ==
  LET params == last.options.parameters IN
  \/ IsSome(params.trustedAccounts) /\ Get(params.trustedAccounts) # << >>
  \/ /\ IsSome(params.cloudFormationExecutionPolicies)
     /\ Get(params.cloudFormationExecutionPolicies) # << >>
  \/ IsSome(params.createCustomerMasterKey)
  \/ IsSome(params.qualifier) /\ Get(params.qualifier) # << >>

\* C7: a legacy invocation given a modern-only argument (trusted accounts or
\* execution policies that are not empty, a defined createCustomerMasterKey,
\* a qualifier that is not empty) fails with no remote call made, neither
\* BootstrapStack.lookup nor deployStack, and leaves the stack as it was.
C7_LegacyRejectsModernArguments ==
  (Bootstrapped /\ ~ModernFlavor /\ ModernOnlyArgument) =>
    /\ ~last.result.ok
    /\ last.result.error.name = "ToolkitError"
    /\ last.result.error.message.type = "modern only"
    /\ last.events = << >>
    /\ deployed = last.current

\* A legacy invocation that was given trusted accounts.
C7_Witness ==
  /\ Bootstrapped
  /\ ~ModernFlavor
  /\ IsSome(last.options.parameters.trustedAccounts)
  /\ Get(last.options.parameters.trustedAccounts) # << >>
  /\ ~last.result.ok
  /\ last.events = << >>

(***************************************************************************)
(* Properties of lookupToolkit under concurrent calls                      *)
(***************************************************************************)
\* The calls that have started, and those that have returned.
Started == {p \in Callers : callers.calls[p].pc # "idle"}
Returned == {p \in Callers : callers.calls[p].pc = "done"}
\* The remote fetches made, and the values of those that completed.
FetchesMade == Cardinality({p \in Callers : callers.calls[p].fetched})
FetchedValues == {callers.fetches[i] : i \in 1..Len(callers.fetches)}

\* C32: however the calls interleave, no more fetches are made than calls
\* have started (and as many as the registry counted), every call that has
\* returned returned the value of a fetch that completed, the cache of the
\* environment holds the value of the fetch that completed last, and a
\* call that started after a fetch had completed made no fetch.
C32_ConcurrentLookups ==
  /\ FetchesMade <= Cardinality(Started)
  /\ FetchesMade = lookupCalls[ValidatedEnv]
  /\ \A p \in Returned :
       /\ IsSome(callers.calls[p].result)
       /\ Get(callers.calls[p].result) \in FetchedValues
  /\ callers.fetches # << >> =>
       registry[ValidatedEnv].toolkitInfo = Some(callers.fetches[Len(callers.fetches)])
  /\ \A p \in Started : callers.calls[p].seen > 0 => ~callers.calls[p].fetched

\* Three calls have all fetched and returned, the first and the last fetch
\* completed with different values, and the cache holds the last one.
C32_Witness ==
  /\ Returned = Callers
  /\ FetchesMade = MaxCallers
  /\ Len(callers.fetches) = MaxCallers
  /\ callers.fetches[1] # callers.fetches[MaxCallers]
  /\ registry[ValidatedEnv].toolkitInfo = Some(callers.fetches[MaxCallers])

(***************************************************************************)
(* Properties of the parameters the modern flavor derives                  *)
(***************************************************************************)
\* The list a comma-separated parameter of the stack holds: none when the
\* parameter is missing or empty.
Listed(parameter) ==
  IF ~IsSome(parameter) \/ Get(parameter) = << >> THEN << >>
  ELSE SplitText(Get(parameter), ",")

\* The list the last invocation was given, else the one the stack it found
\* holds under the parameter.
GivenOrListed(given, parameter) ==
  IF IsSome(given) THEN Get(given) ELSE Listed(last.current.parameters[parameter])

\* The accounts of a list that the last invocation does not name untrusted.
StillTrusted(accounts) ==
  LET untrusted == OrEmpty(last.options.parameters.untrustedAccounts) IN
  SelectSeq(accounts, LAMBDA acc : \A i \in 1..Len(untrusted) : untrusted[i] # acc)

\* The lists the last invocation resolves.
ResolvedTrusted ==
  StillTrusted(GivenOrListed(last.options.parameters.trustedAccounts, "TrustedAccounts"))
ResolvedTrustedForLookup ==
  StillTrusted(GivenOrListed(last.options.parameters.trustedAccountsForLookup,
                             "TrustedAccountsForLookup"))
ResolvedPolicies ==
  GivenOrListed(last.options.parameters.cloudFormationExecutionPolicies,
                "CloudFormationExecutionPolicies")

\* The calls of the deployment executor the last invocation made.
Deployments == EventsOf(last.events, "deployStack")

\* C24: a modern invocation that resolves trusted accounts for deployment
\* and no execution policy, given or held by the existing stack, ends in a
\* configuration error (the one that asks for execution policies, unless
\* the arguments conflict already), never calls deployStack and leaves the
\* stack as it was.
C24_TrustNeedsExecutionPolicies ==
  (Bootstrapped /\ ModernFlavor /\ Len(ResolvedTrusted) # 0 /\ Len(ResolvedPolicies) = 0) =>
    /\ ConfigurationError
    /\ ~(KeyConflict \/ TrustConflict) =>
         last.result.error.message.type = "pass execution policies when using trust"
    /\ Deployments = << >>
    /\ deployed = last.current

\* A modern invocation that took the trusted accounts from the stack it
\* found and was given an empty list of execution policies.
C24_Witness ==
  /\ Bootstrapped
  /\ ModernFlavor
  /\ last.current.found
  /\ ~IsSome(last.options.parameters.trustedAccounts)
  /\ Len(ResolvedTrusted) # 0
  /\ last.options.parameters.cloudFormationExecutionPolicies = Some(<< >>)
  /\ ~last.result.ok
  /\ last.result.error.message.type = "pass execution policies when using trust"

\* The administrator policy of the partition of the account.
AdministratorAccess == << "arn:", Partition, ":iam::aws:policy/AdministratorAccess" >>

\* The warnings of the last invocation that the default execution policy is
\* used.
DefaultPolicyWarnings ==
  SelectSeq(last.events,
            LAMBDA x : x.ev = "warn" /\ x.message.type = "using default execution policy")

\* The last invocation resolved no trusted account and no execution policy.
NothingResolved == Len(ResolvedTrusted) = 0 /\ Len(ResolvedPolicies) = 0

\* C25 as stated: a modern invocation that resolves no trusted account and
\* no execution policy warns that the default is applied and hands the
\* administrator policy to deployStack as the execution policies.
C25_AsStated ==
  (Bootstrapped /\ ModernFlavor /\ NothingResolved /\ ~(KeyConflict \/ TrustConflict)) =>
    /\ Len(DefaultPolicyWarnings) = 1
    /\ \A i \in 1..Len(Deployments) :
         Deployments[i].parameters.CloudFormationExecutionPolicies
           = Some(JoinText(<< AdministratorAccess >>, ","))

\* C25 amended: a modern invocation whose arguments do not conflict warns
\* once that the administrator policy of the partition is the default
\* execution policy when it resolves no trusted account and no execution
\* policy, and never otherwise; the execution policies it then hands to
\* deployStack are the empty string, not the administrator policy.
C25_DefaultPolicyIsAnnouncedNotPassed ==
  (Bootstrapped /\ ModernFlavor /\ ~(KeyConflict \/ TrustConflict)) =>
    IF NothingResolved
      THEN /\ Len(DefaultPolicyWarnings) = 1
           /\ DefaultPolicyWarnings[1].message.policy = AdministratorAccess
           /\ \A i \in 1..Len(Deployments) :
                /\ Deployments[i].parameters.CloudFormationExecutionPolicies = Some(<< >>)
      ELSE DefaultPolicyWarnings = << >>

\* A modern invocation that resolved nothing, warned and called deployStack
\* with the empty string.
C25_Witness ==
  /\ Bootstrapped
  /\ ModernFlavor
  /\ NothingResolved
  /\ Len(DefaultPolicyWarnings) = 1
  /\ Len(Deployments) = 1
  /\ Deployments[1].parameters.CloudFormationExecutionPolicies = Some(<< >>)
  /\ last.result.ok

\* The lists of accounts the last invocation reported under a heading.
Reported(heading) ==
  LET told == SelectSeq(last.events,
                        LAMBDA x : x.ev = "info" /\ x.message.type = heading)
  IN [i \in 1..Len(told) |-> told[i].message.accounts]

\* An account the last invocation names untrusted occurs in a parameter.
HoldsUntrusted(parameter) ==
  LET untrusted == OrEmpty(last.options.parameters.untrustedAccounts) IN
  \E i \in 1..Len(Listed(parameter)), j \in 1..Len(untrusted) :
    Listed(parameter)[i] = untrusted[j]

\* C27: a modern invocation whose arguments do not conflict takes each of
\* the two trusted lists as given, else from the comma-separated parameter
\* of the stack it found (nothing for a missing or empty parameter), drops
\* the untrusted accounts from both, reports the two lists and hands them,
\* joined, to deployStack: no untrusted account is in either parameter.
C27_TrustedListsWithoutUntrusted ==
  (Bootstrapped /\ ModernFlavor /\ ~(KeyConflict \/ TrustConflict)) =>
    /\ Reported("trusted accounts for deployment") = << ResolvedTrusted >>
    /\ Reported("trusted accounts for lookup") = << ResolvedTrustedForLookup >>
    /\ \A i \in 1..Len(Deployments) :
         LET handed == Deployments[i].parameters IN
         /\ handed.TrustedAccounts = Some(JoinText(ResolvedTrusted, ","))
         /\ handed.TrustedAccountsForLookup = Some(JoinText(ResolvedTrustedForLookup, ","))
         /\ ~HoldsUntrusted(handed.TrustedAccounts)
         /\ ~HoldsUntrusted(handed.TrustedAccountsForLookup)

\* A modern invocation that found a stack trusting two accounts, was given
\* no trusted list and one of the two as untrusted, and deployed with the
\* other one alone.
C27_Witness ==
  /\ Bootstrapped
  /\ ModernFlavor
  /\ last.current.found
  /\ ~IsSome(last.options.parameters.trustedAccounts)
  /\ Len(Listed(last.current.parameters.TrustedAccounts)) = 2
  /\ last.options.parameters.untrustedAccounts = Some(<< OtherAccount >>)
  /\ Len(Deployments) = 1
  /\ Deployments[1].parameters.TrustedAccounts = Some(TrustedAccount)

\* The last invocation was given no trusted account, no untrusted account
\* and no execution policy.
NoTrustGiven ==
  LET params == last.options.parameters IN
  /\ ~IsSome(params.trustedAccounts)
  /\ ~IsSome(params.trustedAccountsForLookup)
  /\ ~IsSome(params.untrustedAccounts)
  /\ ~IsSome(params.cloudFormationExecutionPolicies)

\* C37: a modern invocation that is given no trusted accounts, no trusted
\* accounts for lookup, no untrusted accounts and no execution policies
\* hands to deployStack, as TrustedAccounts, TrustedAccountsForLookup and
\* CloudFormationExecutionPolicies, the values these parameters have on the
\* stack it found, and the empty string for one the stack does not have.
C37_TrustKeptOnRebootstrap ==
  (Bootstrapped /\ ModernFlavor /\ NoTrustGiven) =>
    \A i \in 1..Len(Deployments) :
      LET handed == Deployments[i].parameters
          existing == last.current.parameters
      IN /\ handed.TrustedAccounts = Some(OrEmpty(existing.TrustedAccounts))
         /\ handed.TrustedAccountsForLookup = Some(OrEmpty(existing.TrustedAccountsForLookup))
         /\ handed.CloudFormationExecutionPolicies =
              Some(OrEmpty(existing.CloudFormationExecutionPolicies))

\* A modern invocation without any trust argument that found a stack
\* trusting two accounts under two execution policies, and deployed.
C37_Witness ==
  /\ Bootstrapped
  /\ ModernFlavor
  /\ NoTrustGiven
  /\ last.current.found
  /\ Len(Listed(last.current.parameters.TrustedAccounts)) = 2
  /\ Len(Listed(last.current.parameters.TrustedAccountsForLookup)) = 1
  /\ Len(Listed(last.current.parameters.CloudFormationExecutionPolicies)) = 2
  /\ Len(Deployments) = 1
  /\ last.result.ok

\* C38 as stated: a modern invocation that hands a non-empty TrustedAccounts
\* or a non-empty TrustedAccountsForLookup to deployStack hands it a
\* non-empty CloudFormationExecutionPolicies as well.
C38_AsStated ==
  (Bootstrapped /\ ModernFlavor) =>
    \A i \in 1..Len(Deployments) :
      LET handed == Deployments[i].parameters IN
      (handed.TrustedAccounts # Some(<< >>) \/ handed.TrustedAccountsForLookup # Some(<< >>))
        => handed.CloudFormationExecutionPolicies # Some(<< >>)

\* C38: a modern invocation that calls deployStack having resolved a
\* trusted account for deployment has resolved an execution policy, and
\* hands both over as non-empty parameters; trust for lookup alone is not
\* held to this: an invocation that resolves accounts trusted for lookup, no
\* account trusted for deployment and no execution policy is not refused,
\* warns that the default policy is used and hands deployStack the lookup
\* accounts with an empty CloudFormationExecutionPolicies.
C38_DeploymentTrustNeedsPolicies ==
  (Bootstrapped /\ ModernFlavor /\ ~(KeyConflict \/ TrustConflict)) =>
    /\ \A i \in 1..Len(Deployments) :
         LET handed == Deployments[i].parameters IN
         /\ Len(ResolvedTrusted) # 0 <=> handed.TrustedAccounts # Some(<< >>)
         /\ Len(ResolvedPolicies) # 0 <=> handed.CloudFormationExecutionPolicies # Some(<< >>)
         /\ Len(ResolvedTrusted) # 0 => Len(ResolvedPolicies) # 0
    /\ (Len(ResolvedTrustedForLookup) # 0 /\ NothingResolved) =>
         /\ Len(DefaultPolicyWarnings) = 1
         /\ ~last.result.ok =>
              last.result.error.message.type # "pass execution policies when using trust"
         /\ \A i \in 1..Len(Deployments) :
              LET handed == Deployments[i].parameters IN
              /\ handed.TrustedAccountsForLookup # Some(<< >>)
              /\ handed.CloudFormationExecutionPolicies = Some(<< >>)

\* A modern invocation that was given one trusted account for deployment
\* and one execution policy, and deployed with both.
C38_Witness ==
  /\ Bootstrapped
  /\ ModernFlavor
  /\ last.options.parameters.trustedAccounts = Some(<< TrustedAccount >>)
  /\ last.options.parameters.cloudFormationExecutionPolicies = Some(<< ExecutionPolicy >>)
  /\ Len(Deployments) = 1
  /\ Deployments[1].parameters.TrustedAccounts = Some(TrustedAccount)
  /\ Deployments[1].parameters.CloudFormationExecutionPolicies = Some(ExecutionPolicy)
  /\ last.result.ok

\* C29: every deployStack call of an invocation, legacy or modern, carries
\* the termination protection given, else the one of the stack found, else
\* false; and an invocation given none leaves the termination protection of
\* a stack it found as it was.
C29_TerminationProtectionKept ==
  Bootstrapped =>
    /\ \A i \in 1..Len(Deployments) :
         Deployments[i].terminationProtection =
           IF IsSome(last.options.terminationProtection)
             THEN Get(last.options.terminationProtection)
           ELSE IF last.current.found THEN last.current.terminationProtection
           ELSE FALSE
    /\ (last.current.found /\ ~IsSome(last.options.terminationProtection)) =>
         deployed.terminationProtection = last.current.terminationProtection

\* An invocation given no termination protection that found a protected
\* stack and deployed over it.
C29_Witness ==
  /\ Bootstrapped
  /\ ~IsSome(last.options.terminationProtection)
  /\ last.current.found
  /\ last.current.terminationProtection
  /\ Len(Deployments) = 1
  /\ Deployments[1].terminationProtection
  /\ last.result.ok
  /\ ~last.result.value.noOp
  /\ deployed.terminationProtection

\* A value of a template declares a version: a number, or a string that
\* starts with a digit (what parseInt takes for a number).
DeclaresVersion(v) ==
  \/ v.type = "number"
  \/ v.type = "string" /\ Len(v.text) > 0 /\ IsDigit(v.text[1])
\* The version a value declares is 0: the number 0, or a string whose
\* leading digits are all 0.
DeclaresZero(v) ==
  \/ v.type = "number" /\ v.value = 0
  \/ /\ v.type = "string"
     /\ \A i \in 1..Len(v.text) : (\A j \in 1..i : IsDigit(v.text[j])) => v.text[i] = "0"

\* The version a template declares is 0: its version output is 0, or it
\* declares none there and its version resource is 0 or declares none.
VersionIsZero(template) ==
  IF DeclaresVersion(template.outputVersion) THEN DeclaresZero(template.outputVersion)
  ELSE IF DeclaresVersion(template.resourceVersion) THEN DeclaresZero(template.resourceVersion)
  ELSE TRUE

\* The path the last invocation took: only the modern one asks for the
\* account, right after the lookup of the stack, and hands parameters to
\* deployStack; the legacy one hands none.
TookModernPath ==
  /\ CountEvents(last.events, "sdk.currentAccount") = 1
  /\ \A i \in 1..Len(Deployments) :
       IsSome(Deployments[i].parameters.PublicAccessBlockConfiguration)
TookLegacyPath ==
  /\ CountEvents(last.events, "sdk.currentAccount") = 0
  /\ \A i \in 1..Len(Deployments) : Deployments[i].parameters = NoParameters
  /\ (~last.result.ok /\ last.result.error.name = "ToolkitError") =>
       last.result.error.message.type = "modern only"

\* C30: an invocation of the legacy source takes the legacy path, one of
\* the default source the modern path, and one of a custom source the
\* legacy path if the version its template declares is 0 (also when it
\* declares none that parses) and the modern path otherwise.
C30_FlavorByDeclaredVersion ==
  Bootstrapped =>
    CASE last.source.source = "legacy" -> TookLegacyPath
      [] last.source.source = "default" -> TookModernPath
      [] last.source.source = "custom" ->
           IF VersionIsZero(last.source.template) THEN TookLegacyPath /\ ~TookModernPath
           ELSE TookModernPath /\ ~TookLegacyPath

\* An invocation of a custom template whose version output does not parse
\* and that has no version resource: it deployed the legacy way.
C30_Witness ==
  /\ Bootstrapped
  /\ last.source.source = "custom"
  /\ last.source.template.outputVersion = String(<< "x" >>)
  /\ last.source.template.resourceVersion = Undefined
  /\ Len(Deployments) = 1
  /\ TookLegacyPath
  /\ last.result.ok

\* The IAM calls of the last invocation.
Lookups == EventsOf(last.events, "iam.getPolicy")
Creations == EventsOf(last.events, "iam.createPolicy")

\* The name and the ARN of the example policy of the last invocation.
ExampleName ==
  << "cdk-" >>
    \o (IF IsSome(last.options.parameters.qualifier) THEN Get(last.options.parameters.qualifier)
        ELSE << "hnb659fds" >>)
    \o << "-permissions-boundary" >>
ExampleArn == << "arn:", Partition, ":iam::", BootAccount, ":policy", "/" >> \o ExampleName

\* What a lookup of the policy reported: that there is none (the error
\* NoSuchEntity, or a response without a policy), or that it exists.
ReportsAbsent(lookup) ==
  \/ ~lookup.answer.ok /\ lookup.answer.error.name = "NoSuchEntity"
  \/ lookup.answer.ok /\ lookup.answer.value = None
ReportsFound(lookup) == lookup.answer.ok /\ lookup.answer.value # None

KeyDirective ==
  LET params == last.options.parameters IN
  IF IsSome(params.kmsKeyId) THEN params.kmsKeyId
  ELSE IF params.createCustomerMasterKey = Some(TRUE) THEN Some(CREATE_NEW_KEY)
  ELSE IF params.createCustomerMasterKey = Some(FALSE) THEN Some(USE_AWS_MANAGED_KEY)
  ELSE IF ~IsSome(last.current.parameters.FileAssetsBucketKmsKeyId)
    THEN Some(USE_AWS_MANAGED_KEY)
  ELSE None

\* C26: a modern invocation given a key id together with a defined customer
\* key flag ends in the configuration error about the two; otherwise the
\* key directive it hands to deployStack is the key id given, else "create
\* new" under a true flag, else "use default" under a false flag or when
\* the stack records no key id, else nothing.
C26_KeyDirective ==
  (Bootstrapped /\ ModernFlavor) =>
    IF IsSome(last.options.parameters.kmsKeyId)
         /\ IsSome(last.options.parameters.createCustomerMasterKey)
      THEN /\ ~last.result.ok
           /\ last.result.error.message.type = "cannot pass kms key id and customer key together"
           /\ Deployments = << >>
      ELSE \A i \in 1..Len(Deployments) :
             Deployments[i].parameters.FileAssetsBucketKmsKeyId = KeyDirective

\* The permissions boundary the stack found by the last invocation holds
\* (the empty string counts as none), and the one the invocation computes.
PreviousBoundary ==
  LET held == last.current.parameters.InputPermissionsBoundary IN
  IF IsSome(held) /\ Get(held) # << >> THEN held ELSE None
ComputedBoundary ==
  LET params == last.options.parameters IN
  IF params.examplePermissionsBoundary = Some(TRUE)
    THEN Some(ExamplePolicyName(IF IsSome(params.qualifier) THEN Get(params.qualifier)
                                ELSE << "hnb659fds" >>))
  ELSE IF IsSome(params.customPermissionsBoundary)
            /\ Get(params.customPermissionsBoundary) # << >>
    THEN params.customPermissionsBoundary
  ELSE None

\* The warnings about the permissions boundary.
BoundaryWarningTypes ==
  {"adding new permissions boundary", "removing existing permissions boundary",
   "changing permissions boundary"}
IsBoundaryWarning(x) == x.ev = "warn" /\ x.message.type \in BoundaryWarningTypes
BoundaryWarnings == SelectSeq(last.events, IsBoundaryWarning)

\* C28: a modern invocation that reaches the update has emitted, before the
\* safety gate and before deployStack, no warning about the permissions
\* boundary when the computed boundary equals the previous one (an empty
\* previous parameter being none), and exactly one when they differ:
\* "adding" without a previous one, "removing" without a computed one,
\* "changing" otherwise.
C28_OneWarningPerBoundaryChange ==
  (UpdateReached /\ ModernFlavor) =>
    /\ IF PreviousBoundary = ComputedBoundary THEN BoundaryWarnings = << >>
       ELSE /\ Len(BoundaryWarnings) = 1
            /\ BoundaryWarnings[1].message.type =
                 IF ~IsSome(PreviousBoundary) THEN "adding new permissions boundary"
                 ELSE IF ~IsSome(ComputedBoundary) THEN "removing existing permissions boundary"
                 ELSE "changing permissions boundary"
    /\ \A i \in 1..Len(last.events), j \in 1..Len(last.events) :
         (IsBoundaryWarning(last.events[i])
            /\ last.events[j].ev \in {"safety gate", "deployStack"}) => i < j

\* A modern invocation that found a stack with one boundary, computed
\* another, warned of the change and went on to deploy.
C28_Witness ==
  /\ UpdateReached
  /\ ModernFlavor
  /\ IsSome(PreviousBoundary)
  /\ IsSome(ComputedBoundary)
  /\ PreviousBoundary # ComputedBoundary
  /\ Len(BoundaryWarnings) = 1
  /\ BoundaryWarnings[1].message.type = "changing permissions boundary"
  /\ Len(Deployments) = 1

(***************************************************************************)
(* Properties of the account identity cache                                *)
(***************************************************************************)
\* The entries a text of the cache file holds (none if there is no file or
\* the text is no JSON).
EntriesOf(content) ==
  IF IsSome(content) /\ IsSome(ParseJson(Get(content)))
    THEN Get(ParseJson(Get(content)))
    ELSE << >>

\* What the last call of the cache read from the file, and what the file
\* holds now.
EntriesBefore == EntriesOf(last.events[1].read)
EntriesNow == EntriesOf(cacheFile.content)

\* The last call is a get of the fingerprint that the call before it, a put
\* or a fetch, was about.
GetAfter(op) ==
  /\ last.op = "get"
  /\ last.previous.op = op
  /\ last.previous.fingerprint = last.fingerprint

\* A put below the cap leaves the entries of the other fingerprints as they
\* were.
OthersRetained ==
  (last.op = "put" /\ Len(EntriesBefore) < MAX_ENTRIES)
    => \A k \in Fingerprints \ {last.fingerprint} :
         IsSome(MapGet(EntriesBefore, k)) => MapGet(EntriesNow, k) = MapGet(EntriesBefore, k)

\* C15, as the specification states it: put(F, I) followed by get(F), on
\* the same cache or on a fresh one over the same file, returns I unchanged,
\* whatever the state of the file system; entries under other fingerprints
\* stay readable while the cap is not reached.
C15_AsStated ==
  /\ GetAfter("put") => last.result = Return(Some(last.previous.account))
  /\ OthersRetained

\* C15, amended: put(F, I) followed by get(F) returns I unchanged provided
\* the cache file can be written and read (a put on storage that denies
\* access writes nothing and raises nothing, and the get then finds F
\* absent); entries under other fingerprints stay readable while the cap is
\* not reached.
C15_PutThenGet ==
  /\ (GetAfter("put") /\ cacheFile.access = "ok")
       => last.result = Return(Some(last.previous.account))
  /\ OthersRetained

\* A get returned what the put before it stored, next to an earlier entry.
C15_Witness ==
  /\ GetAfter("put")
  /\ cacheFile.access = "ok"
  /\ last.result = Return(Some(last.previous.account))
  /\ Len(EntriesNow) >= 2

\* C16: the file never holds more than MAX_ENTRIES entries; a put that
\* finds MAX_ENTRIES entries in the store clears it, so that the entry just
\* written is the only one left; a put that finds fewer keeps every entry
\* in its place and, where it writes, adds its own.
C16_CapOnEntries ==
  /\ Len(EntriesNow) <= MAX_ENTRIES
  /\ last.op = "put" =>
       IF Len(EntriesBefore) >= MAX_ENTRIES
         THEN EntriesNow = << [key |-> last.fingerprint, account |-> last.account] >>
         ELSE /\ \A i \in 1..Len(EntriesBefore) :
                   \/ EntriesBefore[i].key = last.fingerprint
                   \/ (i <= Len(EntriesNow) /\ EntriesNow[i] = EntriesBefore[i])
              /\ last.events[2].done =>
                   /\ MapGet(EntriesNow, last.fingerprint) = Some(last.account)
                   /\ Len(EntriesNow) =
                        IF IsSome(MapGet(EntriesBefore, last.fingerprint))
                          THEN Len(EntriesBefore)
                          ELSE Len(EntriesBefore) + 1

\* A put found the store full and left its own entry only.
C16_Witness ==
  /\ last.op = "put"
  /\ Len(EntriesBefore) = MAX_ENTRIES
  /\ ~IsSome(MapGet(EntriesBefore, last.fingerprint))
  /\ EntriesNow = << [key |-> last.fingerprint, account |-> last.account] >>

\* What fetch does with the resolver, whatever the storage: no call and the
\* cached account when the fingerprint is in the store, one call and its
\* answer when it is not.
FetchResolves ==
  last.op = "fetch" =>
    IF IsSome(MapGet(EntriesBefore, last.fingerprint))
      THEN /\ CountEvents(last.events, "resolver") = 0
           /\ CountEvents(last.events, "fs.writeJson") = 0
           /\ last.result = Return(Get(MapGet(EntriesBefore, last.fingerprint)))
      ELSE /\ CountEvents(last.events, "resolver") = 1
           /\ last.result = Return(EventsOf(last.events, "resolver")[1].answer)

\* The fetch that called the resolver left its answer in the store.
FetchStored ==
  MapGet(EntriesNow, last.fingerprint) = Some(last.account)

\* C17, as the specification states it: fetch returns the cached account
\* without calling the resolver; when the fingerprint is absent it calls the
\* resolver once, stores the answer and returns it, so that a following
\* get(F) returns the same account, whatever the state of the file system.
C17_AsStated ==
  /\ FetchResolves
  /\ (last.op = "fetch" /\ CountEvents(last.events, "resolver") = 1) => FetchStored
  /\ GetAfter("fetch") => last.result = Return(Some(last.previous.account))

\* C17, amended: fetch returns the cached account without calling the
\* resolver; when the fingerprint is absent it calls the resolver exactly
\* once and returns its answer, and, provided the cache file can be written
\* and read, stores the answer so that a following get(F) returns it.
C17_FetchResolvesOnce ==
  /\ FetchResolves
  /\ (last.op = "fetch" /\ CountEvents(last.events, "resolver") = 1
        /\ cacheFile.access = "ok") => FetchStored
  /\ (GetAfter("fetch") /\ cacheFile.access = "ok")
       => last.result = Return(Some(last.previous.account))

\* A get returned the account that the fetch before it had from the
\* resolver and stored.
C17_Witness ==
  /\ GetAfter("fetch")
  /\ cacheFile.access = "ok"
  /\ last.result = Return(Some(last.previous.account))

\* C18: no call of the cache raises; with a backing file that is empty, no
\* JSON or not readable, get returns "absent"; on storage that denies
\* access fetch calls the resolver once and returns its answer.
C18_StorageFailureNeverFails ==
  /\ last.op \in {"get", "put", "fetch"} => last.result.ok
  /\ (last.op = "get"
        /\ \/ cacheFile.access = "denied"
           \/ (IsSome(cacheFile.content) /\ Get(cacheFile.content) \in NonJsonTexts))
       => last.result = Return(None)
  /\ (last.op = "fetch" /\ cacheFile.access = "denied")
       => /\ CountEvents(last.events, "resolver") = 1
          /\ last.result = Return(EventsOf(last.events, "resolver")[1].answer)

\* A get read a file that holds no JSON and returned "absent".
C18_Witness ==
  /\ last.op = "get"
  /\ cacheFile.access = "ok"
  /\ IsSome(cacheFile.content)
  /\ Get(cacheFile.content) \in NonJsonTexts
  /\ last.result = Return(None)

\* C19: a get that runs while a put is under way reads the whole text the
\* file held before the put, or the whole text the put writes, and nothing
\* in between.
C19_ReaderSeesOldOrNew ==
  [][(writer.pc # "idle" /\ writer' = writer /\ last'.op = "get")
       => last'.events[1].read \in {writer.before, Some(Stringify(writer.map))}]_vars

\* A get ran after the put had written its temporary file and before the
\* rename, and read the whole of the old file.
C19_Witness ==
  /\ last.op = "get"
  /\ last.during = "written"
  /\ writer.pc = "written"
  /\ IsSome(last.events[1].read)
  /\ last.events[1].read = writer.before
  /\ cacheFile.temp = Some(Stringify(writer.map))
  /\ IsSome(last.result.value)

(***************************************************************************)
(* Properties of the intrinsic evaluator                                   *)
(***************************************************************************)
\* The listing calls of the last evaluation follow the tokens: the first
\* carries none, each next one the token of the answer before it, and the
\* last answer carries none.
FollowsTokens(calls) ==
  /\ calls[1].token = None
  /\ \A i \in 2..Len(calls) :
       /\ IsSome(calls[i - 1].answer.NextToken)
       /\ calls[i].token = calls[i - 1].answer.NextToken
  /\ calls[Len(calls)].answer.NextToken = None

\* C20: after any sequence of ImportValue evaluations on one evaluator the
\* listing has been called once per page, as many times as there are pages
\* and no more; an evaluation either lists every page, following the
\* continuation tokens until none is left, or makes no listing call.
C20_ListingOncePerPage ==
  /\ IsSome(cfn.pages) => cfn.listCalls = Len(Get(cfn.pages))
  /\ last.op = "ImportValue" =>
       \/ last.events = << >>
       \/ /\ Len(last.events) = Len(Get(cfn.pages))
          /\ FollowsTokens(last.events)
          /\ \A i \in 1..Len(last.events) :
               {x.Name : x \in last.events[i].answer.Exports} = Get(cfn.pages)[i]

\* A later evaluation made no listing call, after the two pages of the
\* listing had been called for once each.
C20_Witness ==
  /\ last.op = "ImportValue"
  /\ last.events = << >>
  /\ Len(Get(cfn.pages)) = 2
  /\ cfn.listCalls = 2
  /\ last.result.ok

\* The error of an export that no page lists.
CannotResolveExport(name) ==
  Throw([name |-> "CfnEvaluationException",
         message |-> [type |-> "cannot resolve export", name |-> name]])

\* C21: ImportValue of a name that no page of the listing holds raises the
\* CfnEvaluationException that names the export; ImportValue of a name that
\* some page holds, the first or a later one, returns the value of that
\* export.
C21_ImportValueResolvesOrRaises ==
  last.op = "ImportValue" =>
    IF \E i \in 1..Len(Get(cfn.pages)) : last.name \in Get(cfn.pages)[i]
      THEN last.result = Return(ExportValue(last.name))
      ELSE last.result = CannotResolveExport(last.name)

\* The first evaluation listed two pages, found the name on neither and
\* raised.
C21_Witness ==
  /\ last.op = "ImportValue"
  /\ Len(last.events) = 2
  /\ Get(cfn.pages)[1] # {}
  /\ Get(cfn.pages)[2] # {}
  /\ \A i \in 1..2 : last.name \notin Get(cfn.pages)[i]
  /\ last.result = CannotResolveExport(last.name)

(***************************************************************************)
(* Properties of evaluateCfnExpression                                     *)
(***************************************************************************)
\* The last call evaluated a mapping of the single key f without a remote
\* call.
Called(f) ==
  /\ last.op = "evaluateCfnExpression"
  /\ last.expression.type = "map"
  /\ last.expression.keys = << f >>
  /\ last.events = << >>

\* The arguments of the last call, evaluated.
Arguments == evaluateCfnExpression(NewEvaluator, << {} >>, last.expression.items[1]).result

\* The last call raised an evaluation error.
EvaluationFailed ==
  /\ ~last.result.ok
  /\ last.result.error.name = "CfnEvaluationException"

\* The texts, joined from the last one backwards.
RECURSIVE JoinedFromEnd(_, _)
JoinedFromEnd(xs, d) ==
  IF Len(xs) = 0 THEN << >>
  ELSE IF Len(xs) = 1 THEN xs[1]
  ELSE JoinedFromEnd(SubSeq(xs, 1, Len(xs) - 1), d) \o << d >> \o xs[Len(xs)]

TextsOf(list) == [i \in 1..Len(list.items) |-> list.items[i].text]

\* The value the mapping holds under the key, if any.
Lookup(map, key) ==
  IF \E i \in 1..Len(map.keys) : map.keys[i] = key
    THEN Some(map.items[CHOOSE i \in 1..Len(map.keys) : map.keys[i] = key])
    ELSE None

\* A piece of a template has a text under the substitutions, and that text.
Resolved(piece, map) ==
  \/ piece.piece = "text"
  \/ /\ IsSome(Lookup(map, piece.name))
     /\ Get(Lookup(map, piece.name)).type \in {"string", "number"}
PieceText(piece, map) ==
  IF piece.piece = "text" THEN piece.text
  ELSE IF Get(Lookup(map, piece.name)).type = "string" THEN Get(Lookup(map, piece.name)).text
  ELSE DecimalString(Get(Lookup(map, piece.name)).number)
RECURSIVE PiecesText(_, _)
PiecesText(pieces, map) ==
  IF Len(pieces) = 0 THEN << >>
  ELSE PieceText(Head(pieces), map) \o PiecesText(Tail(pieces), map)

JoinAgrees ==
  (Called("Fn::Join") /\ Arguments.ok /\ IsTexts(Arguments.value.items[2]))
    => last.result =
         Return(Text(JoinedFromEnd(TextsOf(Arguments.value.items[2]),
                                   Arguments.value.items[1].text[1])))
SplitAgrees ==
  (Called("Fn::Split") /\ Arguments.ok)
    => /\ last.result.ok
       /\ IsTexts(last.result.value)
       /\ Len(last.result.value.items) >= 1
       /\ JoinedFromEnd(TextsOf(last.result.value), Arguments.value.items[1].text[1])
            = Arguments.value.items[2].text
       /\ \A i \in 1..Len(last.result.value.items) :
            \A j \in 1..Len(last.result.value.items[i].text) :
              last.result.value.items[i].text[j] # Arguments.value.items[1].text[1]
SelectAgrees ==
  (Called("Fn::Select") /\ Arguments.ok /\ IsSome(IndexOf(Arguments.value.items[1])))
    => IF Get(IndexOf(Arguments.value.items[1])) < Len(Arguments.value.items[2].items)
         THEN last.result =
                Return(Arguments.value.items[2].items[Get(IndexOf(Arguments.value.items[1])) + 1])
         ELSE EvaluationFailed
SubAgrees ==
  (Called("Fn::Sub") /\ Arguments.ok)
    => \A pieces \in TemplatePieces :
         Arguments.value.items[1].text = Render(pieces)
           => IF \A i \in 1..Len(pieces) : Resolved(pieces[i], Arguments.value.items[2])
                THEN last.result = Return(Text(PiecesText(pieces, Arguments.value.items[2])))
                ELSE EvaluationFailed

\* C22: evaluateCfnExpression agrees with the reference on the four
\* functions without remote calls: Fn::Join is the texts of the evaluated
\* list with the delimiter between them; Fn::Split is the list of texts
\* free of the delimiter that join to the string; Fn::Select is the element
\* at the index, counted from zero and coerced to an integer, and an
\* evaluation error out of range; Fn::Sub is the template with every
\* ${name} replaced by the text of its value, and an evaluation error where
\* a name has none.
C22_LiteralFunctionsAgree ==
  /\ JoinAgrees
  /\ SplitAgrees
  /\ SelectAgrees
  /\ SubAgrees

\* Fn::Select of index '1' returned the second element.
C22_Witness ==
  /\ Called("Fn::Select")
  /\ last.expression.items[1] = List(<< Text(<< "1" >>), Fruits >>)
  /\ last.result = Return(Text(<< "grapes" >>))

\* C23: the evaluation of a mapping whose single key is no recognized
\* function raises nothing of its own: it returns the mapping of the same
\* key with its child evaluated, or fails as the evaluation of the child
\* fails.
C23_UnrecognizedPassesThrough ==
  [][(/\ last'.op = "evaluateCfnExpression"
      /\ last'.expression.type = "map"
      /\ Len(last'.expression.keys) = 1
      /\ last'.expression.keys[1] \notin RecognizedFunctions)
       => LET child == evaluateCfnExpression(evaluator,
                         IF IsSome(cfn'.pages) THEN Get(cfn'.pages) ELSE << {} >>,
                         last'.expression.items[1]).result
          IN last'.result =
               IF child.ok
                 THEN Return([last'.expression EXCEPT !.items = << child.value >>])
                 ELSE child]_vars

\* A call of a function outside the recognized set came back as the mapping
\* with its child, a call of Fn::Join, evaluated.
C23_Witness ==
  /\ last.op = "evaluateCfnExpression"
  /\ last.expression = Single("Fn::Base64", JoinOfTwo)
  /\ last.result = Return(Single("Fn::Base64", Text(<< "a", ":", "b" >>)))

====
